---- MODULE Spec2Model ----
(***************************************************************************)
(* pcheck: the torture orchestrator (stress/torture/mod.rs), its four      *)
(* lanes (stress/torture/tests/{cpu,ram,disk,gpu}.rs) and the standalone   *)
(* disk, RAM and CPU checks (stress/disk/mod.rs, stress/ram.rs,            *)
(* stress/cpu/mod.rs) and the health evaluators of the standalone checks.  *)
(*                                                                         *)
(* Units.  Time is in milliseconds.  Memory sizes are in thousandths of a  *)
(* GB, speeds of the RAM check in thousandths of a GB/s, speeds of the     *)
(* disk lane in thousandths of a MB/s, speeds of the standalone disk check *)
(* in MB/s, temperatures in whole degrees C.  An Option<T> is a sequence:  *)
(* None is <<>> and Some(x) is <<x>>.                                      *)
(***************************************************************************)
EXTENDS Integers, Sequences, FiniteSets, TLC

----------------------------------------------------------------------------
(* Bounds of the model *)

\* config.duration_secs ranges over 0..MaxDurationSecs
MaxDurationSecs == 1
\* num_cpus::get(): the number of worker threads of the CPU lane
NumCores == 2
\* cap of the shared operations counter of the CPU lane
MaxOps == 1
\* how many faults one run sees: a flipped bit, a chunk read back wrong, an I/O
\* error, an operation that overruns its slice, a sleep that overshoots
MaxFaults == 1
\* words per RAM chunk (the lane's 1024 * 1024, scaled down)
ChunkWords == 2
\* longest line typed at the confirmation prompt
MaxInputLen == 3
\* calls the single-lane driver makes on a CPU, RAM or GPU lane
MaxCalls == 6
\* calls it makes on a disk lane: enough for a write pass and a read
MaxDiskCalls == 13
\* loop iterations of the GPU lane that fit in one chunk
FramesPerChunk == 1
\* mismatched words the standalone RAM check may have counted
MaxErrors == 2
\* config.test_size_mb of the standalone disk check ranges over 1..MaxDiskMb
MaxDiskMb == 2

----------------------------------------------------------------------------
(* Program constants *)

CycleMs == 100
cycle_count == 4
RenderEvery == 10
DiskTestSizeMb == 10
RamMaxTestMilliGb == 4000
RamMinTestMilliGb == 100
\* bytes of a sector
SectorBytes == 4096
CpuHotC == 85
CpuOverheatC == 95
GpuHotC == 80
GpuOverheatC == 90

chunk_ms_whole_cycle == CycleMs
\* let chunk_ms = 100 / cycle_count
chunk_ms == CycleMs \div cycle_count

----------------------------------------------------------------------------
(* Values *)

None == <<>>
Some(x) == <<x>>
IsSome(o) == Len(o) = 1
Unwrap(o) == o[1]

Min(a, b) == IF a < b THEN a ELSE b
Max(a, b) == IF a > b THEN a ELSE b
DivCeil(a, b) == (a + b - 1) \div b

Lanes == {"cpu", "ram", "disk", "gpu"}
LaneOrder == <<"cpu", "ram", "disk", "gpu">>

\* words of the RAM buffer: the initial 0, the test pattern, anything else
Zero == "0"
Pattern == "AA55AA55AA55AA55"
Flipped == "flipped"

\* a 1 MB chunk: every byte 0xA5, or some byte different
ChunkA5 == "A5"
ChunkBad == "bad"
\* what a file operation does: it succeeds, it succeeds but the chunk read
\* back holds a wrong byte, or it returns Err
IoOutcomes == {"ok", "bad", "err"}

\* available memory reported by sysinfo, in thousandths of a GB (even values,
\* so that halving is exact); the lane driver also sees larger buffers
AvailMemOrch == {198, 400}
AvailMemLane == {0, 198, 200, 400, 1200}

\* measured duration of one disk I/O call
IoFastMs == 5
IoSlowMs == 1500
\* duration of a RAM chunk that overruns its slice
RamSlowMs == 130
\* thread::sleep returns after at least the requested time
SleepOvershootMs == {0, 7}

TempsOrch == {Some(70)}
\* readings on both sides of the lanes' thresholds
CpuTemps == {None, Some(85), Some(86), Some(95), Some(96)}
GpuTemps == {None, Some(80), Some(81), Some(90), Some(91)}

----------------------------------------------------------------------------
(* RAM lane: stress/torture/tests/ram.rs *)

RamNew ==
    [buffer |-> None, chunk_index |-> 0, total_chunks |-> 0, errors |-> 0,
     tested_gb |-> 0, phase |-> "Alloc", stop_requested |-> FALSE]

\* (test_gb * 1024^3 / 8) as usize, scaled: 0.1 GB is one word
ElementCount(test) == test \div 100

RamTestSize(avail) == Min(avail \div 2, RamMaxTestMilliGb)

RamAllocateBuffer(r, avail) ==
    LET test == RamTestSize(avail)
        n == ElementCount(test)
    IN  IF test < RamMinTestMilliGb
        THEN [r EXCEPT !.phase = "Done"]
        ELSE [r EXCEPT !.buffer = Some([i \in 1..n |-> Zero]),
                       !.tested_gb = test,
                       !.chunk_index = 0,
                       !.total_chunks = DivCeil(n, ChunkWords),
                       !.phase = "Write"]

\* start..end of the chunk at chunk_index, as 0-based word indices
RamChunkRange(r) ==
    LET start == r.chunk_index * ChunkWords
        end == Min(start + ChunkWords, Len(Unwrap(r.buffer)))
    IN  {i \in 0..(Len(Unwrap(r.buffer)) - 1) : start <= i /\ i < end}

RamWriteChunkVerifyEarly(r) ==
    IF ~IsSome(r.buffer) THEN r
    ELSE IF r.chunk_index < r.total_chunks
    THEN LET buf == Unwrap(r.buffer)
             written == [i \in 1..Len(buf) |->
                            IF (i - 1) \in RamChunkRange(r) THEN Pattern ELSE buf[i]]
             next == r.chunk_index + 1
         IN  IF next >= 1
             THEN [r EXCEPT !.buffer = Some(written), !.chunk_index = 0,
                            !.phase = "Verify"]
             ELSE [r EXCEPT !.buffer = Some(written), !.chunk_index = next]
    ELSE r
\* fn write_chunk(&mut self)
RamWriteChunk(r) ==
    IF ~IsSome(r.buffer) THEN r
    ELSE IF r.chunk_index < r.total_chunks
    THEN LET buf == Unwrap(r.buffer)
             written == [i \in 1..Len(buf) |->
                            IF (i - 1) \in RamChunkRange(r) THEN Pattern ELSE buf[i]]
             next == r.chunk_index + 1
         IN  IF next >= r.total_chunks
             THEN [r EXCEPT !.buffer = Some(written), !.chunk_index = 0,
                            !.phase = "Verify"]
             ELSE [r EXCEPT !.buffer = Some(written), !.chunk_index = next]
    ELSE r

RamMismatches(r) ==
    Cardinality({i \in RamChunkRange(r) : Unwrap(r.buffer)[i + 1] # Pattern})

\* verify_chunk, as if the counter held the errors of the current pass only
RamVerifyChunkPerPass(r) ==
    IF ~IsSome(r.buffer) THEN r
    ELSE IF r.chunk_index < r.total_chunks
    THEN LET found == RamMismatches(r)
             before == IF r.chunk_index = 0 THEN 0 ELSE r.errors
             next == r.chunk_index + 1
         IN  IF next >= r.total_chunks
             THEN [r EXCEPT !.errors = before + found, !.chunk_index = 0,
                            !.phase = "Write"]
             ELSE [r EXCEPT !.errors = before + found, !.chunk_index = next]
    ELSE r
\* fn verify_chunk(&mut self)
RamVerifyChunk(r) ==
    IF ~IsSome(r.buffer) THEN r
    ELSE IF r.chunk_index < r.total_chunks
    THEN LET found == RamMismatches(r)
             next == r.chunk_index + 1
         IN  IF next >= r.total_chunks
             THEN [r EXCEPT !.errors = @ + found, !.chunk_index = 0,
                            !.phase = "Write"]
             ELSE [r EXCEPT !.errors = @ + found, !.chunk_index = next]
    ELSE r

\* run_chunk, as if a lane that is Done went on writing
RamRunChunkAfterDone(r, avail) ==
    CASE r.phase = "Alloc" -> RamAllocateBuffer(r, avail)
      [] r.phase = "Write" -> RamWriteChunk(r)
      [] r.phase = "Verify" -> RamVerifyChunk(r)
      [] r.phase = "Done" -> RamWriteChunk(r)
\* pub fn run_chunk(&mut self, _chunk_ms: u64)
RamRunChunk(r, avail) ==
    CASE r.phase = "Alloc" -> RamAllocateBuffer(r, avail)
      [] r.phase = "Write" -> RamWriteChunk(r)
      [] r.phase = "Verify" -> RamVerifyChunk(r)
      [] r.phase = "Done" -> r

RamGetMetrics(r) ==
    [load_pct |-> IF IsSome(r.buffer)
                  THEN CASE r.phase = "Alloc" -> 40
                         [] r.phase = "Write" -> 90
                         [] r.phase = "Verify" -> 85
                         [] r.phase = "Done" -> 0
                  ELSE 0,
     errors |-> r.errors,
     progress_pct |-> IF r.total_chunks > 0
                      THEN (r.chunk_index * 100) \div r.total_chunks ELSE 0]

RamStop(r) == [r EXCEPT !.stop_requested = TRUE, !.phase = "Done"]

RamGetResultErrorsOnly(r) ==
    [tested_gb |-> r.tested_gb,
     errors |-> r.errors,
     healthy |-> ~(r.errors > 0),
     status |-> IF r.errors > 0 THEN "errors detected" ELSE "OK"]
RamGetResult(r) ==
    [tested_gb |-> r.tested_gb,
     errors |-> r.errors,
     healthy |-> ~(r.errors > 0) /\ ~(r.tested_gb < RamMinTestMilliGb),
     status |-> IF r.errors > 0 THEN "errors detected"
                ELSE IF r.tested_gb < RamMinTestMilliGb THEN "Allocation failed"
                ELSE "OK"]

----------------------------------------------------------------------------
(* Disk lane: stress/torture/tests/disk.rs.  fs is the temp file on the    *)
(* file system: whether it exists and its 1 MB chunks.  The lane's handle  *)
(* holds the file position, counted in chunks.                             *)

FsNone == [exists |-> FALSE, data |-> <<>>]

DiskNew ==
    [file |-> None, chunk_index |-> 0, total_chunks |-> 0, errors |-> 0,
     bytes_written |-> 0, bytes_read |-> 0, io_time |-> 0,
     test_size_mb |-> DiskTestSizeMb, phase |-> "CreateFile",
     stop_requested |-> FALSE]

\* OpenOptions ... create(true).truncate(true).open(): <<lane, file system>>
DiskCreateFile(d, f, out) ==
    IF out # "err"
    THEN <<[d EXCEPT !.file = Some([pos |-> 0]), !.chunk_index = 0,
                     !.total_chunks = d.test_size_mb, !.phase = "Write"],
           [exists |-> TRUE, data |-> <<>>]>>
    ELSE <<[d EXCEPT !.phase = "Done"], f>>

\* the file's chunks after a 1 MB write of the pattern at position pos
FsWriteAt(data, pos) ==
    IF pos < Len(data)
    THEN [i \in 1..Len(data) |-> IF i = pos + 1 THEN ChunkA5 ELSE data[i]]
    ELSE Append(data, ChunkA5)

\* after the last chunk of a pass: chunk_index = 0, file.rewind(), next phase
DiskEndOfPass(d, phase) ==
    IF d.chunk_index >= d.total_chunks
    THEN [d EXCEPT !.chunk_index = 0, !.file = Some([pos |-> 0]), !.phase = phase]
    ELSE d

DiskWriteChunk(d, f, io, out) ==
    IF ~IsSome(d.file) THEN <<d, f>>
    ELSE IF d.chunk_index < d.total_chunks
    THEN LET pos == Unwrap(d.file).pos
             timed == [d EXCEPT !.io_time = @ + io]
         IN  IF out # "err"
             THEN <<DiskEndOfPass([timed EXCEPT !.bytes_written = @ + 1,
                                                !.chunk_index = @ + 1,
                                                !.file = Some([pos |-> pos + 1])],
                                  "Read"),
                    [f EXCEPT !.data = FsWriteAt(f.data, pos)]>>
             ELSE <<DiskEndOfPass([timed EXCEPT !.errors = @ + 1,
                                                !.chunk_index = @ + 1], "Read"),
                    f>>
    ELSE <<d, f>>

\* read_exact succeeds only when a whole chunk lies at the file position
DiskReadOk(d, f, out) == out # "err" /\ Unwrap(d.file).pos < Len(f.data)

\* the buffer read_exact filled: the chunk on file, or one with a wrong byte
DiskReadBuffer(d, f, out) ==
    IF out = "bad" THEN ChunkBad ELSE f.data[Unwrap(d.file).pos + 1]

\* buffer.iter().any(|&b| b != 0xA5)
DiskHasErrors(buffer) == buffer # ChunkA5

DiskReadChunk(d, f, io, out) ==
    IF ~IsSome(d.file) THEN <<d, f>>
    ELSE IF d.chunk_index < d.total_chunks
    THEN LET pos == Unwrap(d.file).pos
             timed == [d EXCEPT !.io_time = @ + io]
         IN  IF DiskReadOk(d, f, out)
             THEN <<DiskEndOfPass(
                      [timed EXCEPT !.errors = IF DiskHasErrors(DiskReadBuffer(d, f, out))
                                               THEN @ + 1 ELSE @,
                                    !.bytes_read = @ + 1,
                                    !.chunk_index = @ + 1,
                                    !.file = Some([pos |-> pos + 1])],
                      "Write"),
                    f>>
             ELSE <<DiskEndOfPass([timed EXCEPT !.errors = @ + 1,
                                                !.chunk_index = @ + 1], "Write"),
                    f>>
    ELSE <<d, f>>

DiskRunChunk(d, f, io, out) ==
    CASE d.phase = "CreateFile" -> DiskCreateFile(d, f, out)
      [] d.phase = "Write" -> DiskWriteChunk(d, f, io, out)
      [] d.phase = "Read" -> DiskReadChunk(d, f, io, out)
      [] d.phase = "Done" -> <<d, f>>

\* MB per second in thousandths: bytes / 1024 / 1024 / io_time_secs, or 0.0
DiskSpeed(mb, io_ms) == IF io_ms > 0 THEN (mb * 1000 * 1000) \div io_ms ELSE 0

DiskGetMetrics(d) ==
    [load_pct |-> IF IsSome(d.file)
                  THEN CASE d.phase = "CreateFile" -> 20
                         [] d.phase = "Write" -> 75
                         [] d.phase = "Read" -> 70
                         [] d.phase = "Done" -> 0
                  ELSE 0,
     errors |-> d.errors,
     write_speed_mb_s |-> DiskSpeed(d.bytes_written, d.io_time),
     read_speed_mb_s |-> DiskSpeed(d.bytes_read, d.io_time)]

DiskStopErrorsCounted(d, f) == IF f.exists THEN d.errors ELSE d.errors + 1
\* let _ = std::fs::remove_file(..): the errors counter is left alone
DiskStopErrors(d, f) == d.errors

\* <<lane, file system>>
DiskStop(d, f) ==
    <<[d EXCEPT !.stop_requested = TRUE, !.phase = "Done",
                !.errors = DiskStopErrors(d, f)],
      [f EXCEPT !.exists = FALSE]>>

DiskGetResultBySpeed(d) ==
    LET write_speed == DiskSpeed(d.bytes_written, d.io_time)
        read_speed == DiskSpeed(d.bytes_read, d.io_time)
    IN  [write_speed_mb_s |-> write_speed,
         read_speed_mb_s |-> read_speed,
         healthy |-> ~(write_speed < 1000) /\ ~(read_speed < 1000),
         status |-> IF write_speed < 1000 THEN "Very slow write"
                    ELSE IF read_speed < 1000 THEN "Very slow read"
                    ELSE "OK"]
DiskGetResult(d) ==
    LET write_speed == DiskSpeed(d.bytes_written, d.io_time)
        read_speed == DiskSpeed(d.bytes_read, d.io_time)
    IN  [write_speed_mb_s |-> write_speed,
         read_speed_mb_s |-> read_speed,
         healthy |-> ~(write_speed < 1000) /\ ~(read_speed < 1000)
                     /\ ~(d.errors > 0),
         status |-> IF write_speed < 1000 THEN "Very slow write"
                    ELSE IF read_speed < 1000 THEN "Very slow read"
                    ELSE IF d.errors > 0 THEN "I/O errors"
                    ELSE "OK"]

----------------------------------------------------------------------------
(* GPU lane: stress/torture/tests/gpu.rs *)

GpuNew ==
    [running |-> TRUE, frame_count |-> 0, temp_samples |-> <<>>,
     max_temp |-> None, completed |-> FALSE]

\* one run_chunk: sample the sensor, then spin until chunk_ms has elapsed
GpuRunChunk(g, sensor, ms) ==
    LET sampled ==
            IF IsSome(sensor)
            THEN [g EXCEPT !.temp_samples = Append(@, Unwrap(sensor)),
                           !.max_temp =
                               IF ~IsSome(g.max_temp)
                                  \/ Unwrap(sensor) > Unwrap(g.max_temp)
                               THEN sensor ELSE @]
            ELSE g
    IN  IF ms > 0 /\ g.running
        THEN [sampled EXCEPT !.frame_count = @ + FramesPerChunk]
        ELSE sampled

\* time one run_chunk keeps the calling thread
GpuChunkCost(g, ms) == IF g.running THEN ms ELSE 0

GpuGetMetrics(g, sensor) ==
    [load_pct |-> IF ~g.running THEN 0
                  ELSE IF g.frame_count > 0 THEN 70 + (g.frame_count % 30)
                  ELSE 50,
     temp_c |-> sensor]

GpuStop(g) ==
    IF g.completed THEN g
    ELSE [g EXCEPT !.running = FALSE, !.completed = TRUE]

GpuGetResult(g, sensor) ==
    LET temp_c == IF IsSome(g.max_temp) THEN g.max_temp ELSE sensor
    IN  [temp_c |-> temp_c,
         frames_rendered |-> g.frame_count,
         healthy |-> ~IsSome(temp_c) \/ ~(Unwrap(temp_c) > GpuHotC),
         status |-> IF IsSome(temp_c)
                    THEN IF Unwrap(temp_c) > GpuOverheatC THEN "Overheating"
                         ELSE IF Unwrap(temp_c) > GpuHotC THEN "Running hot"
                         ELSE "OK"
                    ELSE "OK (no temp data)"]

----------------------------------------------------------------------------
(* CPU lane: stress/torture/tests/cpu.rs.  The worker threads are in       *)
(* threads: "check" (about to load running), "work" (computing, the        *)
(* fetch_add still to come), "done" (returned) or "panic".                 *)

Workers == 1..NumCores

CpuNew ==
    [running |-> TRUE, operations |-> 0,
     thread_handles |-> [i \in 1..NumCores |-> i], completed |-> FALSE]

CpuGetMetrics(c, sensor) ==
    [load_pct |-> 100, temp_c |-> sensor, operations |-> c.operations]

\* entry of stop(): the early return, or the store that ends the workers
CpuStopEnter(c) ==
    IF c.completed THEN c ELSE [c EXCEPT !.running = FALSE]

CpuGetResult(c, sensor) ==
    [operations |-> c.operations,
     temp_c |-> sensor,
     healthy |-> ~IsSome(sensor) \/ ~(Unwrap(sensor) > CpuHotC),
     status |-> IF IsSome(sensor)
                THEN IF Unwrap(sensor) > CpuOverheatC THEN "Overheating"
                     ELSE IF Unwrap(sensor) > CpuHotC THEN "Running hot"
                     ELSE "OK"
                ELSE "OK (no temp data)"]

----------------------------------------------------------------------------
(* The confirmation prompt of run_torture_test: stress/torture/mod.rs      *)

Chars == {"n", "N", "o", "O", "y", " ", "\n"}
IsWhitespace(c) == c \in {" ", "\n"}

RECURSIVE SeqsUpTo(_)
SeqsUpTo(n) ==
    IF n = 0 THEN {<<>>}
    ELSE SeqsUpTo(n - 1)
         \cup {Append(s, c) : s \in {t \in SeqsUpTo(n - 1) : Len(t) = n - 1},
                              c \in Chars}

InputLines == SeqsUpTo(MaxInputLen)

RECURSIVE TrimStart(_)
TrimStart(s) ==
    IF s # <<>> /\ IsWhitespace(Head(s)) THEN TrimStart(Tail(s)) ELSE s

RECURSIVE TrimEnd(_)
TrimEnd(s) ==
    IF s # <<>> /\ IsWhitespace(s[Len(s)])
    THEN TrimEnd(SubSeq(s, 1, Len(s) - 1)) ELSE s

\* str::trim
Trim(s) == TrimEnd(TrimStart(s))

LowerChar(c) == CASE c = "N" -> "n" [] c = "O" -> "o" [] OTHER -> c
\* str::to_lowercase
ToLowercase(s) == [i \in 1..Len(s) |-> LowerChar(s[i])]

DeclinesUntrimmed(line) == line = <<"n">> \/ line = <<"n", "o">>
\* input == "n" || input == "no", on the trimmed, lower-cased line
Declines(line) ==
    LET input_ == ToLowercase(Trim(line))
    IN  input_ = <<"n">> \/ input_ = <<"n", "o">>

----------------------------------------------------------------------------
(* State *)

VARIABLES
    pc,            \* where the main thread is
    config,        \* TortureConfig, as its callers in main.rs build it
    input,         \* the line read at the prompt
    stdin_reads,   \* read_line calls made
    now,           \* start.elapsed() in ms
    cycle_start,   \* start.elapsed() when the current cycle began
    elapsed,       \* cycle_start.elapsed() as read before the sleep
    cycle_counter,
    first_render,
    terminal,      \* the cursor's line and the dashboards printed so far
    max_cpu_temp,
    max_gpu_temp,
    cycle_calls,   \* the run_chunk calls of the current cycle, in order
    stop_calls,    \* lanes whose stop() has been called
    stopped,       \* lanes whose stop() has returned
    results,       \* cpu_result .. gpu_result, None until get_result is called
    verdict,       \* all_healthy as print_torture_summary prints it
    result,        \* the TortureResult returned
    cpu, ram, disk, gpu,   \* the lanes, None until created
    fs,            \* the disk lane's temp file
    threads,       \* the CPU workers
    joins,         \* how often each worker has been joined
    cpu_sensor, gpu_sensor,   \* what get_cpu_temp / get_gpu_temp return now
    faults,        \* faults so far
    lane, calls, stops, last_call,   \* the single-lane driver
    ram_test,      \* the standalone RAM check: its measurements and verdict
    disk_test,     \* the standalone disk check
    cpu_test,      \* the standalone CPU check
    gpu_test,      \* the standalone GPU check
    eval,          \* one call of a health evaluator: its arguments and verdict
    monitor        \* the background CPU usage monitor and its reader

orchVars == <<pc, config, input, stdin_reads, now, cycle_start, elapsed,
              cycle_counter, first_render, terminal, max_cpu_temp,
              max_gpu_temp,
              cycle_calls, stop_calls, stopped, results, verdict, result>>
timeVars == <<now, cycle_start, elapsed>>
loopVars == <<cycle_counter, first_render, terminal, max_cpu_temp,
              max_gpu_temp>>
endVars == <<stop_calls, stopped, results, verdict, result>>
promptVars == <<config, input, stdin_reads>>
laneVars == <<cpu, ram, disk, gpu, fs, threads, joins>>
envVars == <<cpu_sensor, gpu_sensor, faults>>
standaloneVars == <<ram_test, disk_test, cpu_test, gpu_test, eval, monitor>>
driverVars == <<lane, calls, stops, last_call, standaloneVars>>
vars == <<orchVars, laneVars, envVars, driverVars>>

duration == config.duration_secs * 1000

NoResults == [l \in Lanes |-> None]

InitIdle ==
    /\ input = <<>> /\ stdin_reads = 0
    /\ now = 0 /\ cycle_start = 0 /\ elapsed = 0
    /\ cycle_counter = 0 /\ first_render = TRUE
    /\ terminal = [cursor |-> 0, rendered |-> <<>>]
    /\ max_cpu_temp = None /\ max_gpu_temp = None
    /\ cycle_calls = <<>> /\ stop_calls = {} /\ stopped = {}
    /\ results = NoResults /\ verdict = None /\ result = None
    /\ fs = FsNone
    /\ joins = [t \in Workers |-> 0]
    /\ faults = 0
    /\ calls = 0 /\ stops = 0 /\ last_call = "none"

Init ==
    /\ InitIdle
    /\ pc = "prompt"
    /\ config \in [duration_secs : 0..MaxDurationSecs, skip_confirm : BOOLEAN]
    /\ cpu = None /\ ram = None /\ disk = None /\ gpu = None
    /\ threads = [t \in Workers |-> "unborn"]
    /\ cpu_sensor \in TempsOrch /\ gpu_sensor \in TempsOrch
    /\ lane = "all"
    /\ ram_test = None /\ disk_test = None
    /\ cpu_test = None /\ gpu_test = None /\ eval = None
    /\ monitor = None

----------------------------------------------------------------------------
(* run_torture_test: the prompt *)

\* io::stdin().read_line(&mut input)
ReadLine ==
    /\ pc = "prompt"
    /\ \E line \in InputLines : input' = line
    /\ stdin_reads' = stdin_reads + 1
    /\ pc' = "confirm"
    /\ UNCHANGED <<config, timeVars, loopVars, cycle_calls, endVars,
                   laneVars, envVars, driverVars>>

CancelledResult ==
    [duration_actual_secs |-> 0, cpu_result |-> None, ram_result |-> None,
     disk_result |-> None, gpu_result |-> None, survived |-> FALSE]

\* the branch on the line, then the 2 s pause before the run
Confirm ==
    /\ pc = "confirm"
    /\ IF Declines(input)
       THEN pc' = "cancelled" /\ result' = Some(CancelledResult)
            /\ input' = input
       ELSE pc' = "create" /\ result' = result /\ input' = <<>>
    /\ UNCHANGED <<config, stdin_reads, timeVars, loopVars, cycle_calls,
                   stop_calls, stopped, results, verdict,
                   laneVars, envVars, driverVars>>

----------------------------------------------------------------------------
(* run_torture_test_internal *)

\* start = Instant::now() and the four constructors
CreateTests ==
    /\ pc = "create"
    /\ now' = 0 /\ cycle_start' = 0 /\ elapsed' = 0
    /\ cpu' = Some(CpuNew)
    /\ threads' = [t \in Workers |-> "check"]
    /\ ram' = Some(RamNew)
    /\ disk' = Some(DiskNew)
    /\ gpu' = Some(GpuNew)
    /\ pc' = "loop"
    /\ UNCHANGED <<promptVars, loopVars, cycle_calls, endVars, fs, joins,
                   envVars, driverVars>>

LoopContinuesLate == now <= duration
\* while start.elapsed() < duration
LoopContinues == now < duration

AfterLoopNoStop == "result_cpu"
\* what follows the loop: the four stop() calls, then the four get_result()
AfterLoop == "stop_cpu"

LoopCheck ==
    /\ pc = "loop"
    /\ IF LoopContinues
       THEN /\ cycle_start' = now
            /\ cycle_calls' = <<>>
            /\ pc' = "chunk_cpu"
       ELSE /\ pc' = AfterLoop
            /\ UNCHANGED <<cycle_start, cycle_calls>>
    /\ UNCHANGED <<promptVars, now, elapsed, loopVars, endVars, laneVars,
                   envVars, driverVars>>

Call(l) == [lane |-> l, ms |-> chunk_ms]

\* cpu_test.run_chunk(chunk_ms): nothing to do, the workers run on their own
ChunkCpu ==
    /\ pc = "chunk_cpu"
    /\ cycle_calls' = Append(cycle_calls, Call("cpu"))
    /\ pc' = "chunk_ram"
    /\ UNCHANGED <<promptVars, timeVars, loopVars, endVars, laneVars,
                   envVars, driverVars>>

ChunkRam ==
    /\ pc = "chunk_ram"
    /\ \E avail \in AvailMemOrch, cost \in {0, RamSlowMs} :
          /\ cost > 0 => faults < MaxFaults /\ Unwrap(ram).phase # "Done"
          /\ ram' = Some(RamRunChunk(Unwrap(ram), avail))
          /\ now' = now + cost
          /\ faults' = IF cost > 0 THEN faults + 1 ELSE faults
    /\ cycle_calls' = Append(cycle_calls, Call("ram"))
    /\ pc' = "chunk_disk"
    /\ UNCHANGED <<promptVars, cycle_start, elapsed, loopVars, endVars,
                   cpu, disk, gpu, fs, threads, joins,
                   cpu_sensor, gpu_sensor, driverVars>>

\* the faults a disk run_chunk with this timing and outcome stands for; a
\* timing or outcome the lane's phase cannot show is not offered (2 faults)
DiskFaults(d, io, out) ==
    CASE io = IoSlowMs /\ out # "ok" -> 2
      [] io = IoSlowMs -> IF d.phase \in {"Write", "Read"} THEN 1 ELSE 2
      [] out = "err" -> IF d.phase # "Done" THEN 1 ELSE 2
      [] out = "bad" -> IF d.phase = "Read" THEN 1 ELSE 2
      [] OTHER -> 0

ChunkDisk ==
    /\ pc = "chunk_disk"
    /\ \E io \in {IoFastMs, IoSlowMs}, out \in IoOutcomes :
          /\ DiskFaults(Unwrap(disk), io, out) > 0 => faults < MaxFaults
          /\ LET after == DiskRunChunk(Unwrap(disk), fs, io, out)
             IN  /\ disk' = Some(after[1])
                 /\ fs' = after[2]
                 /\ now' = now + (after[1].io_time - Unwrap(disk).io_time)
          /\ faults' = faults + DiskFaults(Unwrap(disk), io, out)
    /\ cycle_calls' = Append(cycle_calls, Call("disk"))
    /\ pc' = "chunk_gpu"
    /\ UNCHANGED <<promptVars, cycle_start, elapsed, loopVars, endVars,
                   cpu, ram, gpu, threads, joins, cpu_sensor, gpu_sensor,
                   driverVars>>

ChunkGpu ==
    /\ pc = "chunk_gpu"
    /\ gpu' = Some(GpuRunChunk(Unwrap(gpu), gpu_sensor, chunk_ms))
    /\ now' = now + GpuChunkCost(Unwrap(gpu), chunk_ms)
    /\ cycle_calls' = Append(cycle_calls, Call("gpu"))
    /\ pc' = "metrics"
    /\ UNCHANGED <<promptVars, cycle_start, elapsed, loopVars, endVars,
                   cpu, ram, disk, fs, threads, joins, envVars, driverVars>>

\* max_x = Some(max_x.unwrap_or(0.0).max(temp)) when a temperature was read
TrackMax(max_temp, temp_c) ==
    IF IsSome(temp_c)
    THEN Some(Max(IF IsSome(max_temp) THEN Unwrap(max_temp) ELSE 0,
                  Unwrap(temp_c)))
    ELSE max_temp

\* if cycle_counter % 10 == 0, on the counter just incremented
RenderDue(counter) == counter % RenderEvery = 0

\* const MOVE_UP_LINES: &str = "\x1b[5A", and the println! calls of a render
MoveUpLines == 5
DashboardLines == 5

\* render_torture_dashboard, as if it never moved the cursor up
render_torture_dashboard_appending(term, is_first, cycle) ==
    [cursor |-> term.cursor + DashboardLines,
     rendered |-> Append(term.rendered,
                         [cycle |-> cycle, top |-> term.cursor,
                          moved_up |-> 0])]

\* fn render_torture_dashboard(.., first_render): the cursor moves up unless
\* this is the first render, then five lines are printed.  rendered keeps,
\* for each render, the cycle that made it, the line its header went to and
\* how far the cursor was moved up first.
render_torture_dashboard(term, is_first, cycle) ==
    LET up == IF is_first THEN 0 ELSE MoveUpLines
        top == term.cursor - up
    IN  [cursor |-> top + DashboardLines,
         rendered |-> Append(term.rendered,
                             [cycle |-> cycle, top |-> top,
                              moved_up |-> up])]

\* the four get_metrics calls, the running maxima, the counter and the render
Metrics ==
    /\ pc = "metrics"
    /\ max_cpu_temp' = TrackMax(max_cpu_temp,
                                CpuGetMetrics(Unwrap(cpu), cpu_sensor).temp_c)
    /\ max_gpu_temp' = TrackMax(max_gpu_temp,
                                GpuGetMetrics(Unwrap(gpu), gpu_sensor).temp_c)
    /\ cycle_counter' = cycle_counter + 1
    /\ first_render' = IF RenderDue(cycle_counter + 1) THEN FALSE
                       ELSE first_render
    /\ terminal' = IF RenderDue(cycle_counter + 1)
                    THEN render_torture_dashboard(terminal, first_render,
                                                  cycle_counter + 1)
                    ELSE terminal
    /\ pc' = "sleep"
    /\ UNCHANGED <<promptVars, timeVars, cycle_calls, endVars, laneVars,
                   envVars, driverVars>>

\* the end of a cycle, as if it slept a whole cycle whatever had elapsed
SleepWholeCycle ==
    /\ pc = "sleep"
    /\ elapsed' = now - cycle_start
    /\ \E over \in SleepOvershootMs :
          /\ over > 0 => faults < MaxFaults /\ elapsed' < CycleMs
          /\ now' = now + CycleMs + over
          /\ faults' = IF over > 0 THEN faults + 1 ELSE faults
    /\ pc' = "loop"
    /\ UNCHANGED <<promptVars, cycle_start, loopVars, cycle_calls, endVars,
                   laneVars, cpu_sensor, gpu_sensor, driverVars>>

\* let elapsed = cycle_start.elapsed(); sleep the rest of the cycle, if any
Sleep ==
    /\ pc = "sleep"
    /\ elapsed' = now - cycle_start
    /\ \E over \in SleepOvershootMs :
          /\ over > 0 => faults < MaxFaults /\ elapsed' < CycleMs
          /\ now' = IF elapsed' < CycleMs
                    THEN now + (CycleMs - elapsed') + over ELSE now
          /\ faults' = IF over > 0 THEN faults + 1 ELSE faults
    /\ pc' = "loop"
    /\ UNCHANGED <<promptVars, cycle_start, loopVars, cycle_calls, endVars,
                   laneVars, cpu_sensor, gpu_sensor, driverVars>>

----------------------------------------------------------------------------
(* Stopping the lanes and collecting the results *)

CpuJoinStepNoWait(next_pc) ==
    LET c == Unwrap(cpu)
    IN  IF c.thread_handles # <<>>
        THEN /\ joins' = [joins EXCEPT ![Head(c.thread_handles)] = @ + 1]
             /\ cpu' = Some([c EXCEPT !.thread_handles = Tail(@)])
             /\ UNCHANGED <<pc, stopped>>
        ELSE /\ cpu' = Some([c EXCEPT !.completed = TRUE])
             /\ stopped' = stopped \cup {"cpu"}
             /\ pc' = next_pc
             /\ UNCHANGED joins
\* the join loop of CpuTortureTest::stop: join the next handle once its
\* thread has ended; with no handle left, completed = true and stop returns
CpuJoinStep(next_pc) ==
    LET c == Unwrap(cpu)
    IN  IF c.thread_handles # <<>>
        THEN /\ threads[Head(c.thread_handles)] \in {"done", "panic"}
             /\ joins' = [joins EXCEPT ![Head(c.thread_handles)] = @ + 1]
             /\ cpu' = Some([c EXCEPT !.thread_handles = Tail(@)])
             /\ UNCHANGED <<pc, stopped>>
        ELSE /\ cpu' = Some([c EXCEPT !.completed = TRUE])
             /\ stopped' = stopped \cup {"cpu"}
             /\ pc' = next_pc
             /\ UNCHANGED joins

StopCpu ==
    /\ pc = "stop_cpu"
    /\ stop_calls' = stop_calls \cup {"cpu"}
    /\ cpu' = Some(CpuStopEnter(Unwrap(cpu)))
    /\ IF Unwrap(cpu).completed
       THEN pc' = "stop_ram" /\ stopped' = stopped \cup {"cpu"}
       ELSE pc' = "join_cpu" /\ stopped' = stopped
    /\ UNCHANGED <<promptVars, timeVars, loopVars, cycle_calls, results,
                   verdict, result, ram, disk, gpu, fs, threads, joins,
                   envVars, driverVars>>

JoinCpu ==
    /\ pc = "join_cpu"
    /\ CpuJoinStep("stop_ram")
    /\ UNCHANGED <<promptVars, timeVars, loopVars, cycle_calls, stop_calls,
                   results, verdict, result, ram, disk, gpu, fs, threads,
                   envVars, driverVars>>

StopRam ==
    /\ pc = "stop_ram"
    /\ stop_calls' = stop_calls \cup {"ram"}
    /\ ram' = Some(RamStop(Unwrap(ram)))
    /\ stopped' = stopped \cup {"ram"}
    /\ pc' = "stop_disk"
    /\ UNCHANGED <<promptVars, timeVars, loopVars, cycle_calls, results,
                   verdict, result, cpu, disk, gpu, fs, threads, joins,
                   envVars, driverVars>>

StopDisk ==
    /\ pc = "stop_disk"
    /\ stop_calls' = stop_calls \cup {"disk"}
    /\ disk' = Some(DiskStop(Unwrap(disk), fs)[1])
    /\ fs' = DiskStop(Unwrap(disk), fs)[2]
    /\ stopped' = stopped \cup {"disk"}
    /\ pc' = "stop_gpu"
    /\ UNCHANGED <<promptVars, timeVars, loopVars, cycle_calls, results,
                   verdict, result, cpu, ram, gpu, threads, joins,
                   envVars, driverVars>>

StopGpu ==
    /\ pc = "stop_gpu"
    /\ stop_calls' = stop_calls \cup {"gpu"}
    /\ gpu' = Some(GpuStop(Unwrap(gpu)))
    /\ stopped' = stopped \cup {"gpu"}
    /\ pc' = "result_cpu"
    /\ UNCHANGED <<promptVars, timeVars, loopVars, cycle_calls, results,
                   verdict, result, cpu, ram, disk, fs, threads, joins,
                   envVars, driverVars>>

ResultCpu ==
    /\ pc = "result_cpu"
    /\ results' = [results EXCEPT
                     !["cpu"] = Some(CpuGetResult(Unwrap(cpu), cpu_sensor))]
    /\ pc' = "result_ram"
    /\ UNCHANGED <<promptVars, timeVars, loopVars, cycle_calls, stop_calls,
                   stopped, verdict, result, laneVars, envVars, driverVars>>

ResultRam ==
    /\ pc = "result_ram"
    /\ results' = [results EXCEPT !["ram"] = Some(RamGetResult(Unwrap(ram)))]
    /\ pc' = "result_disk"
    /\ UNCHANGED <<promptVars, timeVars, loopVars, cycle_calls, stop_calls,
                   stopped, verdict, result, laneVars, envVars, driverVars>>

ResultDisk ==
    /\ pc = "result_disk"
    /\ results' = [results EXCEPT !["disk"] = Some(DiskGetResult(Unwrap(disk)))]
    /\ pc' = "result_gpu"
    /\ UNCHANGED <<promptVars, timeVars, loopVars, cycle_calls, stop_calls,
                   stopped, verdict, result, laneVars, envVars, driverVars>>

ResultGpu ==
    /\ pc = "result_gpu"
    /\ results' = [results EXCEPT
                     !["gpu"] = Some(GpuGetResult(Unwrap(gpu), gpu_sensor))]
    /\ pc' = "summary"
    /\ UNCHANGED <<promptVars, timeVars, loopVars, cycle_calls, stop_calls,
                   stopped, verdict, result, laneVars, envVars, driverVars>>

\* let all_healthy = cpu.healthy && ram.healthy && disk.healthy && gpu.healthy
AllHealthy(res) ==
    /\ Unwrap(res["cpu"]).healthy /\ Unwrap(res["ram"]).healthy
    /\ Unwrap(res["disk"]).healthy /\ Unwrap(res["gpu"]).healthy

\* the TortureResult literal that ends run_torture_test_internal
TortureResultOf(res, secs) ==
    [duration_actual_secs |-> secs,
     cpu_result |-> res["cpu"], ram_result |-> res["ram"],
     disk_result |-> res["disk"], gpu_result |-> res["gpu"],
     survived |-> TRUE]

\* print_torture_summary, then the value returned
Summary ==
    /\ pc = "summary"
    /\ verdict' = Some(AllHealthy(results))
    /\ result' = Some(TortureResultOf(results, now \div 1000))
    /\ pc' = "done"
    /\ UNCHANGED <<promptVars, timeVars, loopVars, cycle_calls, stop_calls,
                   stopped, results, laneVars, envVars, driverVars>>

----------------------------------------------------------------------------
(* The workers of the CPU lane: while running.load() { work; fetch_add }   *)

\* iterations begun and not yet counted
Working == Cardinality({t \in Workers : threads[t] = "work"})

WorkerCheck(t) ==
    /\ threads[t] = "check"
    /\ IF Unwrap(cpu).running
       THEN /\ Unwrap(cpu).operations + Working < MaxOps
            /\ threads' = [threads EXCEPT ![t] = "work"]
       ELSE threads' = [threads EXCEPT ![t] = "done"]
    /\ UNCHANGED <<orchVars, cpu, ram, disk, gpu, fs, joins, envVars,
                   driverVars>>

WorkerWork(t) ==
    /\ threads[t] = "work"
    /\ cpu' = Some([Unwrap(cpu) EXCEPT !.operations = @ + 1])
    /\ threads' = [threads EXCEPT ![t] = "check"]
    /\ UNCHANGED <<orchVars, ram, disk, gpu, fs, joins, envVars, driverVars>>

\* a bit of the RAM buffer flips
FlipWord ==
    /\ faults < MaxFaults
    /\ IsSome(ram) /\ IsSome(Unwrap(ram).buffer)
    /\ Unwrap(ram).phase # "Done"
    /\ \E i \in 1..Len(Unwrap(Unwrap(ram).buffer)) :
          ram' = Some([Unwrap(ram) EXCEPT
                         !.buffer = Some([Unwrap(@) EXCEPT ![i] = Flipped])])
    /\ faults' = faults + 1
    /\ UNCHANGED <<orchVars, cpu, disk, gpu, fs, threads, joins,
                   cpu_sensor, gpu_sensor, driverVars>>

Next ==
    \/ ReadLine \/ Confirm \/ CreateTests \/ LoopCheck
    \/ ChunkCpu \/ ChunkRam \/ ChunkDisk \/ ChunkGpu \/ Metrics \/ Sleep
    \/ StopCpu \/ JoinCpu \/ StopRam \/ StopDisk \/ StopGpu
    \/ ResultCpu \/ ResultRam \/ ResultDisk \/ ResultGpu \/ Summary
    \/ \E t \in Workers : WorkerCheck(t)
    \/ \E t \in Workers : WorkerWork(t)
    \/ FlipWord

Spec == Init /\ [][Next]_vars

\* the main thread
MainThread ==
    \/ ReadLine \/ Confirm \/ CreateTests \/ LoopCheck
    \/ ChunkCpu \/ ChunkRam \/ ChunkDisk \/ ChunkGpu \/ Metrics \/ Sleep
    \/ StopCpu \/ JoinCpu \/ StopRam \/ StopDisk \/ StopGpu
    \/ ResultCpu \/ ResultRam \/ ResultDisk \/ ResultGpu \/ Summary

\* the worker threads
WorkerThreads == \E t \in Workers : WorkerCheck(t) \/ WorkerWork(t)

\* the runs with the prompt shown: skip_confirm is not read by the run.
\* Some thread that can run does: every call of the main thread returns, and
\* while the main thread waits in a join the workers are scheduled.
InitPrompted == Init /\ ~config.skip_confirm

SpecFair ==
    /\ InitPrompted
    /\ [][Next]_vars
    /\ WF_vars(MainThread \/ WorkerThreads)

\* run_torture_test for a run long enough to render more than once
LongRuns == {MaxDurationSecs + 1}

InitLongRun ==
    /\ InitIdle
    /\ pc = "prompt"
    /\ config \in [duration_secs : LongRuns, skip_confirm : BOOLEAN]
    /\ cpu = None /\ ram = None /\ disk = None /\ gpu = None
    /\ threads = [t \in Workers |-> "unborn"]
    /\ cpu_sensor \in TempsOrch /\ gpu_sensor \in TempsOrch
    /\ lane = "all"
    /\ ram_test = None /\ disk_test = None
    /\ cpu_test = None /\ gpu_test = None /\ eval = None
    /\ monitor = None

SpecLongRun == InitLongRun /\ [][Next]_vars

----------------------------------------------------------------------------
(* One lane on its own: any sequence of run_chunk, stop and get_result     *)
(* calls a holder of the lane can make, with the lane's environment.       *)

InitLane ==
    /\ InitIdle
    /\ pc = "lane"
    /\ config = [duration_secs |-> 0, skip_confirm |-> FALSE]
    /\ lane \in Lanes
    /\ cpu = IF lane = "cpu" THEN Some(CpuNew) ELSE None
    /\ threads = [t \in Workers |-> IF lane = "cpu" THEN "check" ELSE "unborn"]
    /\ ram = IF lane = "ram" THEN Some(RamNew) ELSE None
    /\ disk = IF lane = "disk" THEN Some(DiskNew) ELSE None
    /\ gpu = IF lane = "gpu" THEN Some(GpuNew) ELSE None
    /\ cpu_sensor \in IF lane = "cpu" THEN CpuTemps ELSE {None}
    /\ gpu_sensor \in IF lane = "gpu" THEN GpuTemps ELSE {None}
    /\ ram_test = None /\ disk_test = None
    /\ cpu_test = None /\ gpu_test = None /\ eval = None
    /\ monitor = None

\* get_result(&self) of the lane held
LaneGetResult ==
    CASE lane = "cpu" -> CpuGetResult(Unwrap(cpu), cpu_sensor)
      [] lane = "ram" -> RamGetResult(Unwrap(ram))
      [] lane = "disk" -> DiskGetResult(Unwrap(disk))
      [] lane = "gpu" -> GpuGetResult(Unwrap(gpu), gpu_sensor)

\* the caller makes one more call; results holds what the call returned
Called(name) ==
    /\ pc = "lane"
    /\ calls < (IF lane = "disk" THEN MaxDiskCalls ELSE MaxCalls)
    /\ calls' = calls + 1
    /\ last_call' = name
    /\ results' = IF name = "get_result"
                  THEN [NoResults EXCEPT ![lane] = Some(LaneGetResult)]
                  ELSE NoResults

CallRunChunkCpu ==
    /\ lane = "cpu"
    /\ Called("run_chunk")
    /\ UNCHANGED <<pc, promptVars, timeVars, loopVars, cycle_calls,
                   stop_calls, stopped, verdict, result,
                   laneVars, envVars, lane, stops, standaloneVars>>

CallRunChunkRam ==
    /\ lane = "ram"
    /\ Called("run_chunk")
    /\ \E avail \in AvailMemLane : ram' = Some(RamRunChunk(Unwrap(ram), avail))
    /\ UNCHANGED <<pc, promptVars, timeVars, loopVars, cycle_calls,
                   stop_calls, stopped, verdict, result,
                   cpu, disk, gpu, fs, threads, joins, envVars,
                   lane, stops, standaloneVars>>

CallRunChunkDisk ==
    /\ lane = "disk"
    /\ Called("run_chunk")
    /\ \E io \in {IoFastMs, IoSlowMs}, out \in IoOutcomes :
          LET after == DiskRunChunk(Unwrap(disk), fs, io, out)
          IN  disk' = Some(after[1]) /\ fs' = after[2]
    /\ UNCHANGED <<pc, promptVars, timeVars, loopVars, cycle_calls,
                   stop_calls, stopped, verdict, result,
                   cpu, ram, gpu, threads, joins, envVars,
                   lane, stops, standaloneVars>>

CallRunChunkGpu ==
    /\ lane = "gpu"
    /\ Called("run_chunk")
    /\ gpu' = Some(GpuRunChunk(Unwrap(gpu), gpu_sensor, chunk_ms))
    /\ UNCHANGED <<pc, promptVars, timeVars, loopVars, cycle_calls,
                   stop_calls, stopped, verdict, result,
                   cpu, ram, disk, fs, threads, joins, envVars,
                   lane, stops, standaloneVars>>

CallStopCpu ==
    /\ lane = "cpu"
    /\ Called("stop")
    /\ stop_calls' = stop_calls \cup {"cpu"}
    /\ cpu' = Some(CpuStopEnter(Unwrap(cpu)))
    /\ IF Unwrap(cpu).completed
       THEN pc' = "lane" /\ stops' = stops + 1
       ELSE pc' = "lane_join" /\ stops' = stops
    /\ UNCHANGED <<promptVars, timeVars, loopVars, cycle_calls, stopped,
                   verdict, result, ram, disk, gpu, fs, threads,
                   joins, envVars, lane, standaloneVars>>

CallJoinCpu ==
    /\ pc = "lane_join"
    /\ CpuJoinStep("lane")
    /\ stops' = IF Unwrap(cpu).thread_handles = <<>> THEN stops + 1 ELSE stops
    /\ UNCHANGED <<promptVars, timeVars, loopVars, cycle_calls, stop_calls,
                   results, verdict, result, ram, disk, gpu, fs, threads,
                   envVars, lane, calls, last_call, standaloneVars>>

CallStopRam ==
    /\ lane = "ram"
    /\ Called("stop")
    /\ stop_calls' = stop_calls \cup {"ram"}
    /\ ram' = Some(RamStop(Unwrap(ram)))
    /\ stopped' = stopped \cup {"ram"}
    /\ stops' = stops + 1
    /\ UNCHANGED <<pc, promptVars, timeVars, loopVars, cycle_calls,
                   verdict, result, cpu, disk, gpu, fs, threads, joins,
                   envVars, lane, standaloneVars>>

CallStopDisk ==
    /\ lane = "disk"
    /\ Called("stop")
    /\ stop_calls' = stop_calls \cup {"disk"}
    /\ disk' = Some(DiskStop(Unwrap(disk), fs)[1])
    /\ fs' = DiskStop(Unwrap(disk), fs)[2]
    /\ stopped' = stopped \cup {"disk"}
    /\ stops' = stops + 1
    /\ UNCHANGED <<pc, promptVars, timeVars, loopVars, cycle_calls,
                   verdict, result, cpu, ram, gpu, threads, joins,
                   envVars, lane, standaloneVars>>

CallStopGpu ==
    /\ lane = "gpu"
    /\ Called("stop")
    /\ stop_calls' = stop_calls \cup {"gpu"}
    /\ gpu' = Some(GpuStop(Unwrap(gpu)))
    /\ stopped' = stopped \cup {"gpu"}
    /\ stops' = stops + 1
    /\ UNCHANGED <<pc, promptVars, timeVars, loopVars, cycle_calls,
                   verdict, result, cpu, ram, disk, fs, threads, joins,
                   envVars, lane, standaloneVars>>

CallGetResult ==
    /\ Called("get_result")
    /\ UNCHANGED <<pc, promptVars, timeVars, loopVars, cycle_calls,
                   stop_calls, stopped, verdict, result, laneVars, envVars,
                   lane, stops, standaloneVars>>

\* the sensor of the lane held reads something else from now on
SensorChange ==
    /\ pc \in {"lane", "lane_join"}
    /\ lane \in {"cpu", "gpu"}
    /\ faults < MaxFaults
    /\ IF lane = "cpu"
       THEN /\ \E t \in CpuTemps \ {cpu_sensor} : cpu_sensor' = t
            /\ UNCHANGED gpu_sensor
       ELSE /\ \E t \in GpuTemps \ {gpu_sensor} : gpu_sensor' = t
            /\ UNCHANGED cpu_sensor
    /\ faults' = faults + 1
    /\ UNCHANGED <<orchVars, laneVars, driverVars>>

\* calculate_primes panics in a worker: its thread ends without counting
WorkerPanic(t) ==
    /\ pc \in {"lane", "lane_join"}
    /\ threads[t] = "work"
    /\ faults < MaxFaults
    /\ threads' = [threads EXCEPT ![t] = "panic"]
    /\ faults' = faults + 1
    /\ UNCHANGED <<orchVars, cpu, ram, disk, gpu, fs, joins,
                   cpu_sensor, gpu_sensor, driverVars>>

\* get_metrics(&self) of the lane held: it loads the counters and returns
CallGetMetrics ==
    /\ lane \in {"ram", "disk"}
    /\ Called("get_metrics")
    /\ UNCHANGED <<pc, promptVars, timeVars, loopVars, cycle_calls,
                   stop_calls, stopped, verdict, result, laneVars, envVars,
                   lane, stops, standaloneVars>>

NextLane ==
    \/ CallRunChunkCpu \/ CallRunChunkRam \/ CallRunChunkDisk \/ CallRunChunkGpu
    \/ CallStopCpu \/ CallJoinCpu \/ CallStopRam \/ CallStopDisk \/ CallStopGpu
    \/ CallGetResult
    \/ SensorChange \/ FlipWord
    \/ \E t \in Workers : WorkerCheck(t)
    \/ \E t \in Workers : WorkerWork(t)
    \/ \E t \in Workers : WorkerPanic(t)

SpecLane == InitLane /\ [][NextLane]_vars

\* the two lanes that count errors, under any calls
InitCounters == InitLane /\ lane \in {"ram", "disk"}

NextCounters ==
    \/ CallRunChunkRam \/ CallRunChunkDisk \/ CallStopRam \/ CallStopDisk
    \/ CallGetResult \/ CallGetMetrics \/ FlipWord

SpecCounters == InitCounters /\ [][NextCounters]_vars

----------------------------------------------------------------------------
(* HealthStatus: stress/mod.rs *)

Healthy == [kind |-> "Healthy"]
IssuesDetected(issues) == [kind |-> "IssuesDetected", issues |-> issues]
Failed(msg) == [kind |-> "Failed", msg |-> msg]

\* the state outside a standalone check
InitStandalone ==
    /\ InitIdle
    /\ config = [duration_secs |-> 0, skip_confirm |-> FALSE]
    /\ cpu = None /\ ram = None /\ disk = None /\ gpu = None
    /\ threads = [t \in Workers |-> "unborn"]
    /\ cpu_sensor = None /\ gpu_sensor = None
    /\ lane = "none"

----------------------------------------------------------------------------
(* The standalone RAM check: stress/ram.rs.  Sizes in thousandths of a GB, *)
(* speeds in thousandths of a GB/s.                                        *)

RamSizes == {0, 99, 100, 101, 16000}
RamSpeeds == {0, 299, 300, 301, 20000}

evaluate_ram_health_inclusive(test_gb, write, read, errors) ==
    IF errors > 0 THEN Failed("Memory errors detected")
    ELSE IF test_gb <= 100 THEN Failed("Memory allocation failed")
    ELSE IF write <= 300 THEN Failed("Extremely low write speed")
    ELSE IF read <= 300 THEN Failed("Extremely low read speed")
    ELSE Healthy
evaluate_ram_health(test_gb, write, read, errors) ==
    IF errors > 0 THEN Failed("Memory errors detected")
    ELSE IF test_gb < 100 THEN Failed("Memory allocation failed")
    ELSE IF write < 300 THEN Failed("Extremely low write speed")
    ELSE IF read < 300 THEN Failed("Extremely low read speed")
    ELSE Healthy

\* what run_stress_test has measured when it calls evaluate_ram_health
InitRam ==
    /\ InitStandalone
    /\ pc = "ram_evaluate"
    /\ ram_test \in {Some(t) : t \in [tested_gb : RamSizes,
                                      write_speed_gb_s : RamSpeeds,
                                      read_speed_gb_s : RamSpeeds,
                                      errors : 0..MaxErrors,
                                      health : {None}]}
    /\ disk_test = None /\ cpu_test = None /\ gpu_test = None /\ eval = None
    /\ monitor = None

\* let health = evaluate_ram_health(test_gb, write_speed, read_speed, errors)
RamEvaluate ==
    /\ pc = "ram_evaluate"
    /\ LET t == Unwrap(ram_test)
       IN  ram_test' = Some([t EXCEPT !.health =
                               Some(evaluate_ram_health(t.tested_gb,
                                                        t.write_speed_gb_s,
                                                        t.read_speed_gb_s,
                                                        t.errors))])
    /\ pc' = "done"
    /\ UNCHANGED <<promptVars, timeVars, loopVars, cycle_calls, endVars,
                   laneVars, envVars, lane, calls, stops, last_call, disk_test,
                   cpu_test, gpu_test, eval, monitor>>

NextRam == RamEvaluate

SpecRam == InitRam /\ [][NextRam]_vars

----------------------------------------------------------------------------
(* The standalone disk check: stress/disk/mod.rs.  Speeds in MB/s, seek    *)
(* times in ms.  The test file is the number of bytes of each 1 MB chunk   *)
(* that differ from the pattern.                                           *)

ChunkBytes == 1024 * 1024
WriteSpeeds == {0, 9, 10, 29, 30, 500}
ReadSpeeds == {0, 9, 10, 49, 50, 99, 100, 2000}
SeekTimes == {0, 5, 6, 20, 21}
\* bytes a fault damages
BadByteCounts == {1, 4095, 4096}

\* let sector_errors = bad_sectors / 4096
SectorErrors(bad_sectors) == bad_sectors \div SectorBytes

evaluate_disk_health_tolerant(write, read, seek, bad_sectors, is_ssd) ==
    LET min_read == IF is_ssd THEN 50 ELSE 10
        min_write == IF is_ssd THEN 30 ELSE 10
        max_seek == IF is_ssd THEN 5 ELSE 20
        slow_seek == IF seek > 0 /\ seek > max_seek
                     THEN <<"Slow seek time">> ELSE <<>>
        slow_read == IF is_ssd /\ read < 100
                     THEN <<"SSD read speed below average">>
                     ELSE IF ~is_ssd /\ read < 50
                     THEN <<"HDD read speed below average">>
                     ELSE <<>>
        issues == slow_seek \o slow_read
    IN  IF bad_sectors > 1 THEN Failed("Bad sectors detected")
        ELSE IF read < min_read THEN Failed("Extremely slow read speed")
        ELSE IF write < min_write THEN Failed("Extremely slow write speed")
        ELSE IF issues # <<>> THEN IssuesDetected(issues)
        ELSE Healthy
\* evaluate_disk_health, as if the HDD floors applied to every disk
evaluate_disk_health_hdd_floors(write, read, seek, bad_sectors, is_ssd) ==
    LET slow_seek == IF seek > 0 /\ seek > 20
                     THEN <<"Slow seek time">> ELSE <<>>
        slow_read == IF read < 50
                     THEN <<"HDD read speed below average">> ELSE <<>>
        issues == slow_seek \o slow_read
    IN  IF bad_sectors > 0 THEN Failed("Bad sectors detected")
        ELSE IF read < 10 THEN Failed("Extremely slow read speed")
        ELSE IF write < 10 THEN Failed("Extremely slow write speed")
        ELSE IF issues # <<>> THEN IssuesDetected(issues)
        ELSE Healthy
\* fn evaluate_disk_health(write, read, seek, bad_sectors, is_ssd)
evaluate_disk_health(write, read, seek, bad_sectors, is_ssd) ==
    LET min_read == IF is_ssd THEN 50 ELSE 10
        min_write == IF is_ssd THEN 30 ELSE 10
        max_seek == IF is_ssd THEN 5 ELSE 20
        slow_seek == IF seek > 0 /\ seek > max_seek
                     THEN <<"Slow seek time">> ELSE <<>>
        slow_read == IF is_ssd /\ read < 100
                     THEN <<"SSD read speed below average">>
                     ELSE IF ~is_ssd /\ read < 50
                     THEN <<"HDD read speed below average">>
                     ELSE <<>>
        issues == slow_seek \o slow_read
    IN  IF bad_sectors > 0 THEN Failed("Bad sectors detected")
        ELSE IF read < min_read THEN Failed("Extremely slow read speed")
        ELSE IF write < min_write THEN Failed("Extremely slow write speed")
        ELSE IF issues # <<>> THEN IssuesDetected(issues)
        ELSE Healthy

\* SmartData as smart::get_smart_data returns it: the status and, standing
\* for the other attributes, the reallocated sector count
SmartReadings == [status : {"Verified", "Failing", "Unknown"},
                  realloc_sectors : {None, Some(5)}]

DiskTestResult(t, health) ==
    [write_speed_mb_s |-> t.write_speed, read_speed_mb_s |-> t.read_speed,
     seek_time_ms |-> t.seek_time, bad_sectors |-> t.sector_errors,
     is_ssd |-> t.is_ssd, smart |-> t.smart, health |-> health]

\* fn cleanup_test_file(path): the test file afterwards
cleanup_test_file_skipped(file) == file
cleanup_test_file(file) == None

InitDisk ==
    /\ InitStandalone
    /\ pc = "write_test"
    /\ ram_test = None /\ cpu_test = None /\ gpu_test = None /\ eval = None
    /\ monitor = None
    /\ disk_test \in {Some(t) : t \in [test_size_mb : 1..MaxDiskMb,
                                       include_seek_test : BOOLEAN,
                                       verbose : BOOLEAN,
                                       is_ssd : BOOLEAN,
                                       smart : {None},
                                       file : {None}, created : {FALSE},
                                       chunk : {0},
                                       bad_sectors : {0}, sector_errors : {0},
                                       write_speed : {0}, read_speed : {0},
                                       seek_time : {0}, result : {None}]}

\* write_test, and the early return of run_stress_test when it fails
DiskWriteTest ==
    /\ pc = "write_test"
    /\ LET t == Unwrap(disk_test)
           written == Some([i \in 1..t.test_size_mb |-> 0])
       IN  \E ok \in BOOLEAN, opened \in BOOLEAN, speed \in WriteSpeeds :
              /\ ~ok => faults < MaxFaults /\ speed = 0
              /\ ok => opened
              /\ faults' = IF ok THEN faults ELSE faults + 1
              /\ IF ok
                 THEN /\ disk_test' =
                            Some([t EXCEPT !.file = written,
                                           !.created = TRUE,
                                           !.write_speed = speed])
                      /\ pc' = "read_test"
                 ELSE /\ disk_test' =
                            Some([t EXCEPT
                                !.file = cleanup_test_file(
                                            IF opened THEN written ELSE None),
                                !.created = opened,
                                !.result =
                                     Some(DiskTestResult(t, Failed("Cannot write to disk")))])
                      /\ pc' = "done"
    /\ UNCHANGED <<promptVars, timeVars, loopVars, cycle_calls, endVars,
                   laneVars, cpu_sensor, gpu_sensor, lane, calls, stops,
                   last_call, ram_test,
                   cpu_test, gpu_test, eval, monitor>>

\* bytes of a chunk still to be read go bad on the medium
DiskCorrupt ==
    /\ pc = "read_test"
    /\ faults < MaxFaults
    /\ LET t == Unwrap(disk_test)
       IN  \E i \in (t.chunk + 1)..t.test_size_mb, n \in BadByteCounts :
              disk_test' = Some([t EXCEPT !.file =
                  Some([Unwrap(t.file) EXCEPT ![i] = Min(@ + n, ChunkBytes)])])
    /\ faults' = faults + 1
    /\ UNCHANGED <<orchVars, laneVars, cpu_sensor, gpu_sensor, lane, calls,
                   stops, last_call, ram_test,
                   cpu_test, gpu_test, eval, monitor>>

\* one turn of the loop of read_test; a short read or an Err ends the run
DiskReadTestChunk ==
    /\ pc = "read_test"
    /\ LET t == Unwrap(disk_test)
       IN  /\ t.chunk < t.test_size_mb
           /\ \E ok \in BOOLEAN :
                 /\ ~ok => faults < MaxFaults
                 /\ faults' = IF ok THEN faults ELSE faults + 1
                 /\ IF ok
                    THEN /\ disk_test' =
                               Some([t EXCEPT !.bad_sectors =
                                                  @ + Unwrap(t.file)[t.chunk + 1],
                                              !.chunk = @ + 1])
                         /\ pc' = pc
                    ELSE /\ disk_test' =
                               Some([t EXCEPT !.file = cleanup_test_file(@),
                                              !.result =
                                   Some(DiskTestResult(t, Failed("Read test failed")))])
                         /\ pc' = "done"
    /\ UNCHANGED <<promptVars, timeVars, loopVars, cycle_calls, endVars,
                   laneVars, cpu_sensor, gpu_sensor, lane, calls, stops,
                   last_call, ram_test,
                   cpu_test, gpu_test, eval, monitor>>

\* the end of read_test: the speed, and the byte count turned into sectors
DiskReadTestEnd ==
    /\ pc = "read_test"
    /\ LET t == Unwrap(disk_test)
       IN  /\ t.chunk = t.test_size_mb
           /\ \E speed \in ReadSpeeds :
                 disk_test' = Some([t EXCEPT !.read_speed = speed,
                                             !.sector_errors =
                                                 SectorErrors(t.bad_sectors)])
    /\ pc' = "seek_test"
    /\ UNCHANGED <<promptVars, timeVars, loopVars, cycle_calls, endVars,
                   laneVars, envVars, lane, calls, stops, last_call, ram_test,
                   cpu_test, gpu_test, eval, monitor>>

\* if config.include_seek_test { seek_time = seek_test(..) }
DiskSeekTest ==
    /\ pc = "seek_test"
    /\ LET t == Unwrap(disk_test)
       IN  \E seek \in SeekTimes :
              /\ ~t.include_seek_test => seek = 0
              /\ disk_test' = Some([t EXCEPT !.seek_time = seek])
    /\ pc' = "evaluate"
    /\ UNCHANGED <<promptVars, timeVars, loopVars, cycle_calls, endVars,
                   laneVars, envVars, lane, calls, stops, last_call, ram_test,
                   cpu_test, gpu_test, eval, monitor>>

\* cleanup_test_file, the SMART data of verbose mode, evaluate_disk_health
\* and the DiskTestResult returned
DiskEvaluate ==
    /\ pc = "evaluate"
    /\ LET t == Unwrap(disk_test)
           health == evaluate_disk_health(t.write_speed, t.read_speed,
                                          t.seek_time, t.sector_errors, t.is_ssd)
       IN  \E smart \in IF t.verbose THEN {Some(r) : r \in SmartReadings}
                                     ELSE {None} :
              LET u == [t EXCEPT !.smart = smart]
              IN  disk_test' =
                     Some([u EXCEPT !.file = cleanup_test_file(@),
                                    !.result = Some(DiskTestResult(u, health))])
    /\ pc' = "done"
    /\ UNCHANGED <<promptVars, timeVars, loopVars, cycle_calls, endVars,
                   laneVars, envVars, lane, calls, stops, last_call, ram_test,
                   cpu_test, gpu_test, eval, monitor>>

NextDisk ==
    \/ DiskWriteTest \/ DiskCorrupt \/ DiskReadTestChunk \/ DiskReadTestEnd
    \/ DiskSeekTest \/ DiskEvaluate

SpecDisk == InitDisk /\ [][NextDisk]_vars

----------------------------------------------------------------------------
(* The two units that keep a temp file: the disk lane under any calls, and *)
(* the standalone disk check.                                              *)

InitDiskFiles ==
    \/ InitLane /\ lane = "disk"
    \/ InitDisk

NextDiskFiles ==
    \/ CallRunChunkDisk \/ CallStopDisk \/ CallGetResult
    \/ DiskWriteTest \/ DiskCorrupt \/ DiskReadTestChunk \/ DiskReadTestEnd
    \/ DiskSeekTest \/ DiskEvaluate

SpecDiskFiles == InitDiskFiles /\ [][NextDiskFiles]_vars

----------------------------------------------------------------------------
(* The standalone CPU check: stress/cpu/mod.rs.  Variance and frequency    *)
(* drop are in thousandths of a percent, frequencies in MHz.               *)

\* get_cpu_frequency().current_mhz before the load and after it
StartMhz == {0, 3000}
EndMhz == {2699, 2700, 3200}
\* calculate_variance over the times measured, when there are any
Variances == {0, 200000, 200001}

\* the frequency drop of run_stress_test
FreqDropPct(start_mhz, end_mhz) ==
    IF start_mhz > 0
    THEN (Max(start_mhz - end_mhz, 0) * 100000) \div start_mhz
    ELSE 0

CpuCrashed == "CPU crashed during test - FAULTY HARDWARE"

evaluate_cpu_health_overheat_first(completed, variance, temperature, freq_drop_pct) ==
    LET hot == IF IsSome(temperature) /\ Unwrap(temperature) > 85
               THEN <<"CPU running hot">> ELSE <<>>
        throttled == IF freq_drop_pct > 10000
                     THEN <<"CPU throttled">> ELSE <<>>
        issues == hot \o throttled
    IN  IF IsSome(temperature) /\ Unwrap(temperature) > 95
        THEN Failed("CPU overheating")
        ELSE IF ~completed THEN Failed(CpuCrashed)
        ELSE IF variance > 200000 THEN Failed("Extreme instability detected")
        ELSE IF issues # <<>> THEN IssuesDetected(issues)
        ELSE Healthy
evaluate_cpu_health_variance_inclusive(completed, variance, temperature, freq_drop_pct) ==
    LET hot == IF IsSome(temperature) /\ Unwrap(temperature) > 85
               THEN <<"CPU running hot">> ELSE <<>>
        throttled == IF freq_drop_pct > 10000
                     THEN <<"CPU throttled">> ELSE <<>>
        issues == hot \o throttled
    IN  IF ~completed THEN Failed(CpuCrashed)
        ELSE IF IsSome(temperature) /\ Unwrap(temperature) > 95
        THEN Failed("CPU overheating")
        ELSE IF variance >= 200000 THEN Failed("Extreme instability detected")
        ELSE IF issues # <<>> THEN IssuesDetected(issues)
        ELSE Healthy
evaluate_cpu_health_overheat_late(completed, variance, temperature, freq_drop_pct) ==
    LET hot == IF IsSome(temperature) /\ Unwrap(temperature) > 85
               THEN <<"CPU running hot">> ELSE <<>>
        throttled == IF freq_drop_pct > 10000
                     THEN <<"CPU throttled">> ELSE <<>>
        issues == hot \o throttled
    IN  IF ~completed THEN Failed(CpuCrashed)
        ELSE IF IsSome(temperature) /\ Unwrap(temperature) > 96
        THEN Failed("CPU overheating")
        ELSE IF variance > 200000 THEN Failed("Extreme instability detected")
        ELSE IF issues # <<>> THEN IssuesDetected(issues)
        ELSE Healthy
evaluate_cpu_health_overheat_early(completed, variance, temperature, freq_drop_pct) ==
    LET hot == IF IsSome(temperature) /\ Unwrap(temperature) > 85
               THEN <<"CPU running hot">> ELSE <<>>
        throttled == IF freq_drop_pct > 10000
                     THEN <<"CPU throttled">> ELSE <<>>
        issues == hot \o throttled
    IN  IF ~completed THEN Failed(CpuCrashed)
        ELSE IF IsSome(temperature) /\ Unwrap(temperature) >= 95
        THEN Failed("CPU overheating")
        ELSE IF variance > 200000 THEN Failed("Extreme instability detected")
        ELSE IF issues # <<>> THEN IssuesDetected(issues)
        ELSE Healthy
\* evaluate_cpu_health, as if a frequency drop over 10% were a failure
evaluate_cpu_health_escalate(completed, variance, temperature, freq_drop_pct) ==
    LET hot == IF IsSome(temperature) /\ Unwrap(temperature) > 85
               THEN <<"CPU running hot">> ELSE <<>>
    IN  IF ~completed THEN Failed(CpuCrashed)
        ELSE IF IsSome(temperature) /\ Unwrap(temperature) > 95
        THEN Failed("CPU overheating")
        ELSE IF freq_drop_pct > 10000 THEN Failed("CPU throttled")
        ELSE IF variance > 200000 THEN Failed("Extreme instability detected")
        ELSE IF hot # <<>> THEN IssuesDetected(hot)
        ELSE Healthy
\* fn evaluate_cpu_health(completed, variance, temperature, freq_drop_pct)
evaluate_cpu_health(completed, variance, temperature, freq_drop_pct) ==
    LET hot == IF IsSome(temperature) /\ Unwrap(temperature) > 85
               THEN <<"CPU running hot">> ELSE <<>>
        throttled == IF freq_drop_pct > 10000
                     THEN <<"CPU throttled">> ELSE <<>>
        issues == hot \o throttled
    IN  IF ~completed THEN Failed(CpuCrashed)
        ELSE IF IsSome(temperature) /\ Unwrap(temperature) > 95
        THEN Failed("CPU overheating")
        ELSE IF variance > 200000 THEN Failed("Extreme instability detected")
        ELSE IF issues # <<>> THEN IssuesDetected(issues)
        ELSE Healthy

\* run_stress_test once the workers are spawned
InitCpu ==
    /\ InitStandalone
    /\ pc = "cpu_progress"
    /\ cpu_test \in {Some(t) : t \in
          [duration_secs : 0..MaxDurationSecs,
           elapsed : {0},
           running : {TRUE},
           total_ops : {0},
           workers : {[w \in Workers |-> [pc |-> "check", ops |-> 0]]},
           frequency_start : StartMhz,
           frequency_end : {None},
           temperature : {None},
           max_sample : {None},
           joined : {0},
           all_ops : {0},
           completed : {TRUE},
           variance : {0},
           freq_drop_pct : {0},
           health : {None}]}
    /\ ram_test = None /\ disk_test = None /\ gpu_test = None /\ eval = None
    /\ monitor = None

CpuTestUnchanged ==
    UNCHANGED <<promptVars, timeVars, loopVars, cycle_calls, endVars,
                laneVars, cpu_sensor, gpu_sensor, lane, calls, stops,
                last_call, ram_test, disk_test, gpu_test, eval, monitor>>

\* while running.load(Ordering::Relaxed)
CpuTestWorkerCheck(w) ==
    /\ IsSome(cpu_test)
    /\ LET t == Unwrap(cpu_test)
       IN  /\ t.workers[w].pc = "check"
           /\ t.running => t.workers[w].ops < MaxOps
           /\ cpu_test' = Some([t EXCEPT !.workers[w].pc =
                                  IF t.running THEN "work" ELSE "returned"])
    /\ UNCHANGED <<pc, faults>>
    /\ CpuTestUnchanged

\* calculate_primes(CPU_PRIME_WORKLOAD); times.push(elapsed); ops += 1
CpuTestWorkerWork(w) ==
    /\ IsSome(cpu_test)
    /\ LET t == Unwrap(cpu_test)
       IN  /\ t.workers[w].pc = "work"
           /\ cpu_test' = Some([t EXCEPT !.workers[w] =
                                  [pc |-> "add", ops |-> @.ops + 1]])
    /\ UNCHANGED <<pc, faults>>
    /\ CpuTestUnchanged

\* total_ops.fetch_add(1, ..), as if a stopped worker left without it
CpuTestWorkerAddUnlessStopped(w) ==
    /\ IsSome(cpu_test)
    /\ LET t == Unwrap(cpu_test)
       IN  /\ t.workers[w].pc = "add"
           /\ cpu_test' = Some([t EXCEPT !.workers[w].pc = "check",
                                         !.total_ops = IF t.running
                                                       THEN @ + 1 ELSE @])
    /\ UNCHANGED <<pc, faults>>
    /\ CpuTestUnchanged

\* total_ops.fetch_add(1, Ordering::Relaxed)
CpuTestWorkerAdd(w) ==
    /\ IsSome(cpu_test)
    /\ LET t == Unwrap(cpu_test)
       IN  /\ t.workers[w].pc = "add"
           /\ cpu_test' = Some([t EXCEPT !.workers[w].pc = "check",
                                         !.total_ops = @ + 1])
    /\ UNCHANGED <<pc, faults>>
    /\ CpuTestUnchanged

\* a worker panics in the middle of its work
CpuTestWorkerPanic(w) ==
    /\ IsSome(cpu_test)
    /\ faults < MaxFaults
    /\ LET t == Unwrap(cpu_test)
       IN  /\ t.workers[w].pc = "work"
           /\ cpu_test' = Some([t EXCEPT !.workers[w].pc = "panic"])
    /\ faults' = faults + 1
    /\ UNCHANGED pc
    /\ CpuTestUnchanged

\* get_cpu_temp() as the progress loop reads it while the load runs
CpuLoopTemps == {None, Some(70), Some(96)}

\* the highest reading among those of the progress loop so far and temp
HighestSample(seen, temp) ==
    IF ~IsSome(temp) THEN seen
    ELSE IF ~IsSome(seen) THEN temp
    ELSE Some(Max(Unwrap(seen), Unwrap(temp)))

\* for elapsed in 0..config.duration_secs { sleep(1 s); let temp =
\* get_cpu_temp(); progress box }: the reading is shown and dropped, and
\* max_sample records what was shown
CpuTestProgress ==
    /\ pc = "cpu_progress"
    /\ LET t == Unwrap(cpu_test)
       IN  IF t.elapsed < t.duration_secs
           THEN /\ \E temp \in CpuLoopTemps :
                      cpu_test' = Some([t EXCEPT
                          !.elapsed = @ + 1,
                          !.max_sample = HighestSample(@, temp)])
                /\ pc' = pc
           ELSE /\ cpu_test' = cpu_test
                /\ pc' = "cpu_stop"
    /\ UNCHANGED faults
    /\ CpuTestUnchanged

\* running.store(false); frequency_end; temperature = get_cpu_temp()
CpuTestStop ==
    /\ pc = "cpu_stop"
    /\ \E end_mhz \in EndMhz, temp \in CpuTemps :
          cpu_test' = Some([Unwrap(cpu_test) EXCEPT
                              !.running = FALSE,
                              !.frequency_end = Some(end_mhz),
                              !.temperature = temp])
    /\ pc' = "cpu_join"
    /\ UNCHANGED faults
    /\ CpuTestUnchanged

\* completed after one more t.join()
CompletedAfterJoin(completed, worker_pc) ==
    IF worker_pc = "returned" THEN completed ELSE FALSE

\* for t in threads { if let Ok((ops, times)) = t.join() {..} else {..} }
CpuTestJoin ==
    /\ pc = "cpu_join"
    /\ LET t == Unwrap(cpu_test)
           w == t.joined + 1
       IN  IF t.joined < NumCores
           THEN /\ t.workers[w].pc \in {"returned", "panic"}
                /\ cpu_test' = Some([t EXCEPT
                      !.joined = w,
                      !.all_ops = IF t.workers[w].pc = "returned"
                                  THEN @ + t.workers[w].ops ELSE @,
                      !.completed = CompletedAfterJoin(@, t.workers[w].pc)])
                /\ pc' = pc
           ELSE /\ cpu_test' = cpu_test
                /\ pc' = "cpu_metrics"
    /\ UNCHANGED faults
    /\ CpuTestUnchanged

\* variance = calculate_variance(&all_times, avg_time); freq_drop_pct
CpuTestMetrics ==
    /\ pc = "cpu_metrics"
    /\ LET t == Unwrap(cpu_test)
       IN  \E v \in IF t.all_ops = 0 THEN {0} ELSE Variances :
              cpu_test' = Some([t EXCEPT
                    !.variance = v,
                    !.freq_drop_pct =
                        FreqDropPct(t.frequency_start,
                                    Unwrap(t.frequency_end))])
    /\ pc' = "cpu_evaluate"
    /\ UNCHANGED faults
    /\ CpuTestUnchanged

\* let health = evaluate_cpu_health(completed, variance, temperature, ..)
CpuTestEvaluate ==
    /\ pc = "cpu_evaluate"
    /\ LET t == Unwrap(cpu_test)
       IN  cpu_test' = Some([t EXCEPT !.health =
                               Some(evaluate_cpu_health(t.completed,
                                                        t.variance,
                                                        t.temperature,
                                                        t.freq_drop_pct))])
    /\ pc' = "done"
    /\ UNCHANGED faults
    /\ CpuTestUnchanged

NextCpu ==
    \/ \E w \in Workers :
          \/ CpuTestWorkerCheck(w) \/ CpuTestWorkerWork(w)
          \/ CpuTestWorkerAdd(w) \/ CpuTestWorkerPanic(w)
    \/ CpuTestProgress \/ CpuTestStop \/ CpuTestJoin
    \/ CpuTestMetrics \/ CpuTestEvaluate

SpecCpu == InitCpu /\ [][NextCpu]_vars

----------------------------------------------------------------------------
(* The standalone GPU check's evaluator: stress/gpu.rs.                    *)

\* temperature_max as run_stress_test hands it over
GpuMaxTemps == {None, Some(70), Some(85), Some(86), Some(95), Some(96)}
\* the frequency drops handed to evaluate_cpu_health
FreqDrops == {FreqDropPct(s, e) : s \in StartMhz, e \in EndMhz}

NoGpuSensor == "GPU temperature sensor not available"

evaluate_gpu_health_sensor_required(max_temp, is_apple_silicon) ==
    LET issues == IF IsSome(max_temp)
                  THEN IF Unwrap(max_temp) > 85
                       THEN <<"GPU running hot">> ELSE <<>>
                  ELSE <<NoGpuSensor>>
    IN  IF IsSome(max_temp) /\ Unwrap(max_temp) > 95
        THEN Failed("GPU overheating")
        ELSE IF issues # <<>> THEN IssuesDetected(issues)
        ELSE Healthy
evaluate_gpu_health_apple_lenient(max_temp, is_apple_silicon) ==
    LET issues == IF IsSome(max_temp)
                  THEN IF Unwrap(max_temp) > 85
                       THEN <<"GPU running hot">> ELSE <<>>
                  ELSE <<NoGpuSensor>>
    IN  IF IsSome(max_temp) /\ Unwrap(max_temp) > 95 /\ ~is_apple_silicon
        THEN Failed("GPU overheating")
        ELSE IF is_apple_silicon THEN Healthy
        ELSE IF issues # <<>> THEN IssuesDetected(issues)
        ELSE Healthy
evaluate_gpu_health_no_push(max_temp, is_apple_silicon) ==
    LET issues == IF IsSome(max_temp)
                  THEN IF Unwrap(max_temp) > 85
                       THEN <<"GPU running hot">> ELSE <<>>
                  ELSE <<>>
    IN  IF IsSome(max_temp) /\ Unwrap(max_temp) > 95
        THEN Failed("GPU overheating")
        ELSE IF ~IsSome(max_temp) /\ is_apple_silicon THEN Healthy
        ELSE IF ~IsSome(max_temp) \/ issues # <<>>
        THEN IssuesDetected(issues)
        ELSE Healthy
\* fn evaluate_gpu_health(max_temp: Option<f32>, is_apple_silicon: bool)
evaluate_gpu_health(max_temp, is_apple_silicon) ==
    LET issues == IF IsSome(max_temp)
                  THEN IF Unwrap(max_temp) > 85
                       THEN <<"GPU running hot">> ELSE <<>>
                  ELSE <<NoGpuSensor>>
    IN  IF IsSome(max_temp) /\ Unwrap(max_temp) > 95
        THEN Failed("GPU overheating")
        ELSE IF ~IsSome(max_temp) /\ is_apple_silicon THEN Healthy
        ELSE IF issues # <<>> THEN IssuesDetected(issues)
        ELSE Healthy

----------------------------------------------------------------------------
(* The standalone GPU check: stress/gpu.rs.  sampled is every reading the  *)
(* run has taken, which the code does not keep.                            *)

\* what get_gpu_temp, or the Apple metrics, read during the check
GpuTestTemps == {None, Some(70), Some(86), Some(96)}

\* if temperature_max.is_none() || temp > temperature_max.unwrap()
\*     { temperature_max = Some(temp) }, as if it kept the latest reading
TemperatureMaxLatest(temperature_max, temp) == Some(temp)

\* if temperature_max.is_none() || temp > temperature_max.unwrap()
\*     { temperature_max = Some(temp) }
TemperatureMax(temperature_max, temp) ==
    IF ~IsSome(temperature_max) \/ temp > Unwrap(temperature_max)
    THEN Some(temp)
    ELSE temperature_max

\* the test after a reading: nothing changes when there was none
GpuTestSampled(t, temp) ==
    IF IsSome(temp)
    THEN [t EXCEPT !.temperature_max = TemperatureMax(@, Unwrap(temp)),
                   !.sampled = @ \cup {Unwrap(temp)}]
    ELSE t

\* run_stress_test when it is called
InitGpu ==
    /\ InitStandalone
    /\ pc = "gpu_start"
    /\ gpu_test \in {Some(t) : t \in
          [duration_secs : 0..MaxDurationSecs,
           is_apple_silicon : BOOLEAN,
           compute_result : {"pending"},
           elapsed : {0},
           temperature_start : {None},
           temperature_max : {None},
           temperature_end : {None},
           sampled : {{}},
           health : {None}]}
    /\ ram_test = None /\ disk_test = None /\ cpu_test = None
    /\ eval = None
    /\ monitor = None

GpuTestUnchanged ==
    UNCHANGED <<promptVars, timeVars, loopVars, cycle_calls, endVars,
                laneVars, envVars, lane, calls, stops, last_call,
                ram_test, disk_test, cpu_test, eval, monitor>>

\* let temperature_start = get_gpu_temp();
\* let mut temperature_max = temperature_start.as_ref().map(|t| t.current);
GpuTestStart ==
    /\ pc = "gpu_start"
    /\ \E temp \in GpuTestTemps :
          gpu_test' = Some([Unwrap(gpu_test) EXCEPT
              !.temperature_start = temp,
              !.temperature_max = temp,
              !.sampled = IF IsSome(temp) THEN {Unwrap(temp)} ELSE {}])
    /\ pc' = "gpu_compute"
    /\ GpuTestUnchanged

\* run_gpu_compute_stress_sync, as if no thermal loop followed a failure
GpuTestComputeNoFallback ==
    /\ pc = "gpu_compute"
    /\ \E compute_result \in {"Ok", "Err"} :
          gpu_test' = Some([Unwrap(gpu_test) EXCEPT
                               !.compute_result = compute_result])
    /\ pc' = "gpu_end"
    /\ GpuTestUnchanged

\* let compute_result = run_gpu_compute_stress_sync(..): Ok, or the Err of
\* a missing or failing backend; the thermal loop runs only after an Err
GpuTestCompute ==
    /\ pc = "gpu_compute"
    /\ \E compute_result \in {"Ok", "Err"} :
          /\ gpu_test' = Some([Unwrap(gpu_test) EXCEPT
                                  !.compute_result = compute_result])
          /\ pc' = IF compute_result = "Err" THEN "gpu_thermal"
                   ELSE "gpu_end"
    /\ GpuTestUnchanged

\* for elapsed in 0..config.duration_secs: a reading of get_gpu_temp, or on
\* Apple Silicon without one the fresh metrics' temperature every 5 seconds
GpuTestThermal ==
    /\ pc = "gpu_thermal"
    /\ LET t == Unwrap(gpu_test)
       IN  IF t.elapsed < t.duration_secs
           THEN /\ \E temp \in GpuTestTemps, best_temp \in GpuTestTemps :
                      LET read ==
                              IF IsSome(temp) THEN temp
                              ELSE IF t.is_apple_silicon
                                      /\ t.elapsed % 5 = 0
                              THEN best_temp
                              ELSE None
                      IN  gpu_test' = Some([GpuTestSampled(t, read) EXCEPT
                                               !.elapsed = @ + 1])
                /\ pc' = pc
           ELSE /\ gpu_test' = gpu_test
                /\ pc' = "gpu_end"
    /\ GpuTestUnchanged

\* let temperature_end = get_gpu_temp(); update max with end temp
GpuTestEnd ==
    /\ pc = "gpu_end"
    /\ \E temp \in GpuTestTemps :
          gpu_test' = Some([GpuTestSampled(Unwrap(gpu_test), temp) EXCEPT
                               !.temperature_end = temp])
    /\ pc' = "gpu_evaluate"
    /\ GpuTestUnchanged

\* let health = evaluate_gpu_health(temperature_max, is_apple_silicon);
GpuTestEvaluate ==
    /\ pc = "gpu_evaluate"
    /\ LET t == Unwrap(gpu_test)
       IN  gpu_test' = Some([t EXCEPT !.health =
               Some(evaluate_gpu_health(t.temperature_max,
                                        t.is_apple_silicon))])
    /\ pc' = "done"
    /\ GpuTestUnchanged

\* the two units that follow a GPU temperature: the GPU lane under any
\* calls, and the standalone GPU check
InitGpuTemps ==
    \/ InitLane /\ lane = "gpu"
    \/ InitGpu

NextGpuTemps ==
    \/ CallRunChunkGpu \/ CallStopGpu \/ CallGetResult \/ SensorChange
    \/ GpuTestStart \/ GpuTestCompute \/ GpuTestThermal \/ GpuTestEnd
    \/ GpuTestEvaluate

SpecGpuTemps == InitGpuTemps /\ [][NextGpuTemps]_vars

----------------------------------------------------------------------------
(* The four health evaluators, each called once on arguments of its own.   *)

CpuArgs == [completed : BOOLEAN, variance : Variances,
            temperature : CpuTemps, freq_drop_pct : FreqDrops]
RamArgs == [test_gb : RamSizes, write : RamSpeeds, read : RamSpeeds,
            errors : 0..MaxErrors]
DiskArgs == [write : WriteSpeeds, read : ReadSpeeds, seek : SeekTimes,
             bad_sectors : 0..MaxErrors, is_ssd : BOOLEAN]
GpuArgs == [max_temp : GpuMaxTemps, is_apple_silicon : BOOLEAN]

EvalCall(f, args) == Some([fn |-> f, args |-> args, health |-> None])

InitEval ==
    /\ InitStandalone
    /\ pc = "evaluate"
    /\ eval \in {EvalCall("cpu", a) : a \in CpuArgs}
                \cup {EvalCall("ram", a) : a \in RamArgs}
                \cup {EvalCall("disk", a) : a \in DiskArgs}
                \cup {EvalCall("gpu", a) : a \in GpuArgs}
    /\ ram_test = None /\ disk_test = None /\ cpu_test = None
    /\ gpu_test = None /\ monitor = None

\* the call with its return value
Returned(health) == Some([Unwrap(eval) EXCEPT !.health = Some(health)])

EvalUnchanged ==
    UNCHANGED <<promptVars, timeVars, loopVars, cycle_calls, endVars,
                laneVars, envVars, lane, calls, stops, last_call,
                ram_test, disk_test, cpu_test, gpu_test, monitor>>

EvaluateCpu ==
    /\ pc = "evaluate"
    /\ Unwrap(eval).fn = "cpu"
    /\ LET a == Unwrap(eval).args
       IN  eval' = Returned(evaluate_cpu_health(a.completed, a.variance,
                                                a.temperature,
                                                a.freq_drop_pct))
    /\ pc' = "done"
    /\ EvalUnchanged

EvaluateRam ==
    /\ pc = "evaluate"
    /\ Unwrap(eval).fn = "ram"
    /\ LET a == Unwrap(eval).args
       IN  eval' = Returned(evaluate_ram_health(a.test_gb, a.write, a.read,
                                                a.errors))
    /\ pc' = "done"
    /\ EvalUnchanged

EvaluateDisk ==
    /\ pc = "evaluate"
    /\ Unwrap(eval).fn = "disk"
    /\ LET a == Unwrap(eval).args
       IN  eval' = Returned(evaluate_disk_health(a.write, a.read, a.seek,
                                                 a.bad_sectors, a.is_ssd))
    /\ pc' = "done"
    /\ EvalUnchanged

EvaluateGpu ==
    /\ pc = "evaluate"
    /\ Unwrap(eval).fn = "gpu"
    /\ LET a == Unwrap(eval).args
       IN  eval' = Returned(evaluate_gpu_health(a.max_temp,
                                                a.is_apple_silicon))
    /\ pc' = "done"
    /\ EvalUnchanged

NextEval == EvaluateCpu \/ EvaluateRam \/ EvaluateDisk \/ EvaluateGpu

SpecEval == InitEval /\ [][NextEval]_vars

----------------------------------------------------------------------------
(* The background CPU usage monitor: sensors/monitor.rs.  A usage value is  *)
(* the number of the refresh it was read from; the first reading, taken by  *)
(* start() before the thread is spawned, is number 0.                       *)

\* refreshes of the monitor thread and get_per_core_usage calls followed
MaxRefreshes == 2
MaxReads == 2

\* CpuMonitorHandle::start() has returned: the first reading is stored, the
\* lock is free and the thread is at the head of its loop
InitMonitor ==
    /\ InitStandalone
    /\ pc = "monitor"
    /\ monitor = Some([running |-> TRUE,
                       lock |-> "free",
                       per_core_usage |-> [c \in Workers |-> 0],
                       total_usage |-> 0,
                       sys |-> 0,
                       thread |-> "loop",
                       next_core |-> 1,
                       reader |-> "idle",
                       reads |-> 0,
                       returned |-> None])
    /\ ram_test = None /\ disk_test = None /\ cpu_test = None
    /\ gpu_test = None /\ eval = None

MonitorUnchanged ==
    UNCHANGED <<pc, promptVars, timeVars, loopVars, cycle_calls, endVars,
                laneVars, envVars, lane, calls, stops, last_call,
                ram_test, disk_test, cpu_test, gpu_test, eval>>

\* while running.load(): refresh_cpu_usage, sleep(100 ms), refresh_cpu_usage
MonitorRefresh ==
    /\ IsSome(monitor)
    /\ LET m == Unwrap(monitor)
       IN  /\ m.thread = "loop"
           /\ m.running
           /\ m.sys < MaxRefreshes
           /\ monitor' = Some([m EXCEPT !.sys = @ + 1,
                                        !.thread = "try_lock"])
    /\ MonitorUnchanged

\* if let Ok(mut monitor) = data_clone.try_lock(): the update is skipped
\* when the lock is held
MonitorTryLock ==
    /\ IsSome(monitor)
    /\ LET m == Unwrap(monitor)
       IN  /\ m.thread = "try_lock"
           /\ monitor' = Some(IF m.lock = "free"
                              THEN [m EXCEPT !.lock = "monitor",
                                             !.thread = "insert",
                                             !.next_core = 1]
                              ELSE [m EXCEPT !.thread = "loop"])
    /\ MonitorUnchanged

\* monitor.per_core_usage.insert(i, usage), one core at a time
MonitorInsert ==
    /\ IsSome(monitor)
    /\ LET m == Unwrap(monitor)
       IN  /\ m.thread = "insert"
           /\ monitor' = Some(
                 IF m.next_core \in Workers
                 THEN [m EXCEPT !.per_core_usage[m.next_core] = m.sys,
                                !.next_core = @ + 1]
                 ELSE [m EXCEPT !.thread = "total"])
    /\ MonitorUnchanged

\* monitor.total_usage = ..; the guard is dropped at the end of the block
MonitorTotal ==
    /\ IsSome(monitor)
    /\ LET m == Unwrap(monitor)
       IN  /\ m.thread = "total"
           /\ monitor' = Some([m EXCEPT !.total_usage = m.sys,
                                        !.lock = "free",
                                        !.thread = "loop"])
    /\ MonitorUnchanged

\* the main thread calls get_per_core_usage
ReaderCall ==
    /\ IsSome(monitor)
    /\ LET m == Unwrap(monitor)
       IN  /\ m.reader = "idle"
           /\ m.reads < MaxReads
           /\ monitor' = Some([m EXCEPT !.reader = "lock"])
    /\ MonitorUnchanged

\* self.data.lock(), as if it returned while the lock is held
ReaderLockNoWait ==
    /\ IsSome(monitor)
    /\ LET m == Unwrap(monitor)
       IN  /\ m.reader = "lock"
           /\ monitor' = Some([m EXCEPT !.lock = "main",
                                        !.reader = "clone"])
    /\ MonitorUnchanged

\* self.data.lock(): returns once the lock is free
ReaderLock ==
    /\ IsSome(monitor)
    /\ LET m == Unwrap(monitor)
       IN  /\ m.reader = "lock"
           /\ m.lock = "free"
           /\ monitor' = Some([m EXCEPT !.lock = "main",
                                        !.reader = "clone"])
    /\ MonitorUnchanged

\* .unwrap().per_core_usage.clone(); the guard is dropped with the statement
ReaderClone ==
    /\ IsSome(monitor)
    /\ LET m == Unwrap(monitor)
       IN  /\ m.reader = "clone"
           /\ monitor' = Some([m EXCEPT !.returned = Some(m.per_core_usage),
                                        !.lock = "free",
                                        !.reader = "idle",
                                        !.reads = @ + 1])
    /\ MonitorUnchanged

MonitorThread ==
    MonitorRefresh \/ MonitorTryLock \/ MonitorInsert \/ MonitorTotal

NextMonitor ==
    \/ MonitorRefresh \/ MonitorTryLock \/ MonitorInsert \/ MonitorTotal
    \/ ReaderCall \/ ReaderLock \/ ReaderClone

SpecMonitor == InitMonitor /\ [][NextMonitor]_vars

\* both threads keep running; a lock() that waits is woken when the lock is
\* released, while the monitor thread sleeps 100 ms before it tries again
SpecMonitorFair ==
    /\ SpecMonitor
    /\ WF_vars(MonitorThread)
    /\ WF_vars(ReaderClone)
    /\ SF_vars(ReaderLock)

----------------------------------------------------------------------------
(* Properties of the torture run *)

EndPcs == {"stop_cpu", "join_cpu", "stop_ram", "stop_disk", "stop_gpu",
           "result_cpu", "result_ram", "result_disk", "result_gpu",
           "summary", "done"}

\* C1: the survived flag of the TortureResult returned after the run is the
\* AND of the healthy flags of the four lane results it carries.
C1_SurvivedIsAnd ==
    pc = "done" =>
        Unwrap(result).survived =
            (/\ Unwrap(Unwrap(result).cpu_result).healthy
             /\ Unwrap(Unwrap(result).ram_result).healthy
             /\ Unwrap(Unwrap(result).disk_result).healthy
             /\ Unwrap(Unwrap(result).gpu_result).healthy)

\* C8: with skip-confirm set the run leaves Prompt without reading a line:
\* no read_line call is made and the run is never cancelled.
C8_SkipConfirmReadsNothing ==
    config.skip_confirm => stdin_reads = 0 /\ pc \notin {"confirm", "cancelled"}

\* a line that declines: white space, then n or no in either case, then
\* white space
C9_DeclineLine(line) ==
    \E i \in 0..Len(line), j \in 0..Len(line) :
        /\ i <= j
        /\ \A k \in 1..i : line[k] \in {" ", "\n"}
        /\ \A k \in (j + 1)..Len(line) : line[k] \in {" ", "\n"}
        /\ \/ j = i + 1 /\ line[j] \in {"n", "N"}
           \/ j = i + 2 /\ line[i + 1] \in {"n", "N"} /\ line[j] \in {"o", "O"}

C9_NothingRan ==
    /\ cpu = None /\ ram = None /\ disk = None /\ gpu = None
    /\ \A t \in Workers : threads[t] = "unborn"
    /\ cycle_calls = <<>> /\ cycle_counter = 0
    /\ stop_calls = {} /\ results = NoResults
    /\ IsSome(result)
    /\ Unwrap(result).cpu_result = None /\ Unwrap(result).ram_result = None
    /\ Unwrap(result).disk_result = None /\ Unwrap(result).gpu_result = None
    /\ Unwrap(result).survived = FALSE

\* C9: the run is cancelled exactly when the line read, trimmed and
\* lower-cased, is "n" or "no"; Cancelled is terminal, with no lane created,
\* no lane call made, no lane result and survived = false; every other line,
\* the empty one included, leads on to the run.
C9_DeclineCancels ==
    /\ [](pc = "cancelled" => C9_DeclineLine(input) /\ C9_NothingRan)
    /\ [][pc = "confirm" =>
            IF C9_DeclineLine(input) THEN pc' = "cancelled"
            ELSE pc' = "create"]_vars
    /\ [][pc = "cancelled" => UNCHANGED vars]_vars

C9_Witness ==
    pc = "cancelled" /\ input = <<"N", "o", "\n">> /\ C9_NothingRan

C7_StopBeforeResults ==
    /\ [](results # NoResults => stopped = Lanes)
    /\ [](pc = "done" => stop_calls = Lanes /\ \A l \in Lanes : IsSome(results[l]))
    /\ [][stop_calls # {} => cycle_calls' = cycle_calls]_vars

C7_Witness ==
    /\ pc = "done" /\ cycle_counter > 0 /\ stopped = Lanes
    /\ \A l \in Lanes : IsSome(results[l])

C10_ExpectedCalls ==
    <<[lane |-> "cpu", ms |-> 25], [lane |-> "ram", ms |-> 25],
      [lane |-> "disk", ms |-> 25], [lane |-> "gpu", ms |-> 25]>>

\* C10: every cycle calls run_chunk once on each lane, in the order CPU,
\* RAM, Disk, GPU, with 25 ms each, whatever state the lanes are in; the
\* finished run carries a result for each of the four lanes.
C10_EveryLaneEveryCycle ==
    /\ pc = "chunk_cpu" => cycle_calls = <<>>
    /\ pc = "chunk_ram" => cycle_calls = SubSeq(C10_ExpectedCalls, 1, 1)
    /\ pc = "chunk_disk" => cycle_calls = SubSeq(C10_ExpectedCalls, 1, 2)
    /\ pc = "chunk_gpu" => cycle_calls = SubSeq(C10_ExpectedCalls, 1, 3)
    /\ pc \in {"metrics", "sleep"} => cycle_calls = C10_ExpectedCalls
    /\ pc = "loop" /\ cycle_counter > 0 => cycle_calls = C10_ExpectedCalls
    /\ pc = "done" =>
          /\ IsSome(Unwrap(result).cpu_result) /\ IsSome(Unwrap(result).ram_result)
          /\ IsSome(Unwrap(result).disk_result) /\ IsSome(Unwrap(result).gpu_result)

\* a cycle that ran all four lanes although RAM was already Done and unhealthy
C10_Witness ==
    /\ pc = "sleep" /\ cycle_counter >= 3
    /\ Unwrap(ram).phase = "Done" /\ ~RamGetResult(Unwrap(ram)).healthy
    /\ cycle_calls = C10_ExpectedCalls

----------------------------------------------------------------------------
(* Properties of the standalone checks *)

\* C2: when the standalone disk test has read every chunk back and exactly
\* one byte read differed from the pattern, the result has bad_sectors >= 1
\* and health Failed, whatever the write and read speeds measured.
C2_OneBadByteFails ==
    (/\ pc = "done" /\ IsSome(disk_test)
     /\ Unwrap(disk_test).chunk = Unwrap(disk_test).test_size_mb
     /\ Unwrap(disk_test).bad_sectors = 1)
    => /\ Unwrap(Unwrap(disk_test).result).bad_sectors >= 1
       /\ Unwrap(Unwrap(disk_test).result).health.kind = "Failed"

\* C3: evaluate_ram_health returns Failed whenever errors > 0; with no error
\* it returns Failed when the size is below 0.1 GB or the write or the read
\* speed is below 0.3 GB/s, and Healthy otherwise; never IssuesDetected.
C3_RamHealth ==
    (pc = "done" /\ IsSome(ram_test)) =>
        LET t == Unwrap(ram_test)
            kind == Unwrap(t.health).kind
            low == \/ t.tested_gb < 100
                   \/ t.write_speed_gb_s < 300
                   \/ t.read_speed_gb_s < 300
        IN  /\ t.errors > 0 => kind = "Failed"
            /\ t.errors = 0 /\ low => kind = "Failed"
            /\ t.errors = 0 /\ ~low => kind = "Healthy"
            /\ kind # "IssuesDetected"

\* one error fails a RAM that is large and fast
C3_Witness ==
    /\ pc = "done" /\ IsSome(ram_test)
    /\ Unwrap(ram_test).errors = 1
    /\ Unwrap(ram_test).tested_gb = 16000
    /\ Unwrap(ram_test).write_speed_gb_s = 20000
    /\ Unwrap(ram_test).read_speed_gb_s = 20000
    /\ Unwrap(Unwrap(ram_test).health).kind = "Failed"

----------------------------------------------------------------------------
(* Properties of a lane *)

\* words of the chunk at chunk_index that are not the pattern
C4_BadWords ==
    LET r == Unwrap(ram)
        buf == Unwrap(r.buffer)
    IN  Cardinality({i \in 1..Len(buf) :
                        (i - 1) \div ChunkWords = r.chunk_index /\ buf[i] # Pattern})

\* C4: a run_chunk of the RAM lane in its Verify phase adds to errors the
\* number of words of the chunk that are not the pattern; a read of the disk
\* lane that returns a chunk holding a byte other than the pattern adds one
\* to errors; no call lowers errors; get_result on a lane whose errors > 0
\* returns healthy = false, whatever the speeds.
C4_MismatchIsUnhealthy ==
    /\ [](lane = "ram" /\ last_call = "get_result" /\ Unwrap(ram).errors > 0
            => ~Unwrap(results["ram"]).healthy)
    /\ [](lane = "disk" /\ last_call = "get_result" /\ Unwrap(disk).errors > 0
            => ~Unwrap(results["disk"]).healthy)
    /\ [](lane = "disk" /\ Unwrap(disk).phase = "Read" /\ IsSome(Unwrap(disk).file)
            => \A io \in {IoFastMs, IoSlowMs} :
                  /\ Unwrap(disk).chunk_index < Unwrap(disk).total_chunks
                  /\ Unwrap(Unwrap(disk).file).pos < Len(fs.data)
                  => DiskReadChunk(Unwrap(disk), fs, io, "bad")[1].errors
                        = Unwrap(disk).errors + 1)
    /\ [][lane = "ram" /\ calls' = calls + 1 /\ last_call' = "run_chunk"
            /\ Unwrap(ram).phase = "Verify"
            => Unwrap(ram').errors = Unwrap(ram).errors + C4_BadWords]_vars
    /\ [][lane = "ram" => Unwrap(ram').errors >= Unwrap(ram).errors]_vars
    /\ [][lane = "disk" => Unwrap(disk').errors >= Unwrap(disk).errors]_vars

\* the disk lane wrote its ten chunks, read one back with a bad byte, all
\* at full speed, and get_result reports it unhealthy
C4_Witness ==
    /\ lane = "disk" /\ last_call = "get_result"
    /\ Unwrap(disk).bytes_written = DiskTestSizeMb
    /\ Unwrap(disk).bytes_read = 1
    /\ Unwrap(disk).errors = 1
    /\ Unwrap(results["disk"]).write_speed_mb_s >= 1000
    /\ Unwrap(results["disk"]).read_speed_mb_s >= 1000
    /\ ~Unwrap(results["disk"]).healthy

\* C6: on each of the four lanes a second stop() returns, joins no thread
\* again (no worker is ever joined twice) and leaves the lane, its file
\* and its threads exactly as they were.
C6_StopTwice ==
    /\ [](\A t \in Workers : joins[t] <= 1)
    /\ [][stops >= 1 /\ last_call' = "stop" /\ calls' = calls + 1
            => /\ stops' = stops + 1
               /\ UNCHANGED <<cpu, ram, disk, gpu, fs, threads, joins>>]_vars

\* the CPU lane stopped twice, a panicked worker among those joined
C6_Witness ==
    /\ lane = "cpu" /\ stops = 2 /\ last_call = "stop"
    /\ \A t \in Workers : joins[t] = 1
    /\ \E t \in Workers : threads[t] = "panic"

\* C11: a disk lane whose temp file cannot be opened and a RAM lane whose
\* testable size is below 0.1 GB go to Done on that run_chunk call, holding
\* no file and no buffer; from then on, whatever calls follow, the lane
\* holds none and get_result reports healthy = false.
C11_InfrastructureFailureFails ==
    /\ [](lane = "disk" /\ ~IsSome(Unwrap(disk).file)
            => /\ Unwrap(disk).phase \in {"CreateFile", "Done"}
               /\ ~DiskGetResult(Unwrap(disk)).healthy
               /\ last_call = "get_result" => ~Unwrap(results["disk"]).healthy)
    /\ [](lane = "ram" /\ ~IsSome(Unwrap(ram).buffer)
            => /\ Unwrap(ram).phase \in {"Alloc", "Done"}
               /\ Unwrap(ram).tested_gb < 100
               /\ ~RamGetResult(Unwrap(ram)).healthy
               /\ last_call = "get_result" => ~Unwrap(results["ram"]).healthy)
    /\ [][lane = "disk" /\ Unwrap(disk).phase = "CreateFile"
            /\ last_call' = "run_chunk" /\ calls' = calls + 1
            => \/ IsSome(Unwrap(disk').file) /\ Unwrap(disk').phase = "Write"
               \/ ~IsSome(Unwrap(disk').file) /\ Unwrap(disk').phase = "Done"]_vars
    /\ [][lane = "ram" /\ Unwrap(ram).phase = "Alloc"
            /\ last_call' = "run_chunk" /\ calls' = calls + 1
            => \/ /\ IsSome(Unwrap(ram').buffer) /\ Unwrap(ram').phase = "Write"
                  /\ Unwrap(ram').tested_gb >= 100
               \/ ~IsSome(Unwrap(ram').buffer) /\ Unwrap(ram').phase = "Done"]_vars
    /\ [][lane = "disk" /\ Unwrap(disk).phase = "Done" => Unwrap(disk').phase = "Done"]_vars
    /\ [][lane = "ram" /\ Unwrap(ram).phase = "Done" => Unwrap(ram').phase = "Done"]_vars

\* the file could not be opened; calls went on, none of them a stop, and
\* get_result reports the disk lane unhealthy
C11_Witness ==
    /\ lane = "disk" /\ calls >= 4 /\ stops = 0 /\ last_call = "get_result"
    /\ Unwrap(disk).phase = "Done" /\ ~IsSome(Unwrap(disk).file)
    /\ ~Unwrap(results["disk"]).healthy

\* C12: when a worker thread of the CPU lane has panicked, get_result
\* reports healthy = false.
C12_PanicIsUnhealthy ==
    (/\ lane = "cpu" /\ last_call = "get_result"
     /\ \E t \in Workers : threads[t] = "panic")
    => ~Unwrap(results["cpu"]).healthy

----------------------------------------------------------------------------
(* Properties of the standalone CPU check *)

CpuEvaluated == pc = "done" /\ IsSome(cpu_test)

\* C13: completed is false exactly when a join has reported a panic, and a
\* run that is not completed is Failed with the crashed-worker reason,
\* whatever the variance, the temperature and the frequency drop are.
C13_CrashFailsFirst ==
    IsSome(cpu_test) =>
        LET t == Unwrap(cpu_test)
        IN  /\ t.completed =
                  ~(\E w \in 1..t.joined : t.workers[w].pc = "panic")
            /\ pc \in {"cpu_metrics", "cpu_evaluate", "done"}
                  => /\ t.joined = NumCores
                     /\ t.completed =
                           ~(\E w \in Workers : t.workers[w].pc = "panic")
            /\ (IsSome(t.health) /\ ~t.completed)
                  => Unwrap(t.health) =
                        [kind |-> "Failed",
                         msg |-> "CPU crashed during test - FAULTY HARDWARE"]
C13_Witness ==
    /\ CpuEvaluated
    /\ ~Unwrap(cpu_test).completed
    /\ Unwrap(cpu_test).temperature = Some(96)
    /\ Unwrap(cpu_test).variance = 200001
    /\ Unwrap(cpu_test).freq_drop_pct > 10000
    /\ Unwrap(Unwrap(cpu_test).health).kind = "Failed"

\* C14: a completed run with variance in [0, 200], temperature absent or at
\* most 85 C and frequency drop at most 10% is Healthy.
C14_QuietRunIsHealthy ==
    (/\ IsSome(cpu_test) /\ IsSome(Unwrap(cpu_test).health)
     /\ Unwrap(cpu_test).completed
     /\ Unwrap(cpu_test).variance \in 0..200000
     /\ \/ Unwrap(cpu_test).temperature = None
        \/ Unwrap(Unwrap(cpu_test).temperature) <= 85
     /\ Unwrap(cpu_test).freq_drop_pct <= 10000)
    => Unwrap(Unwrap(cpu_test).health) = [kind |-> "Healthy"]
C14_Witness ==
    /\ CpuEvaluated
    /\ Unwrap(cpu_test).completed
    /\ Unwrap(cpu_test).variance = 200000
    /\ Unwrap(cpu_test).temperature = Some(85)
    /\ Unwrap(cpu_test).freq_drop_pct = 10000
    /\ Unwrap(Unwrap(cpu_test).health).kind = "Healthy"

\* C15: a run whose temperature is above 95 C is Failed, whatever the
\* variance and the frequency drop are.
C15_OverheatFails ==
    (/\ IsSome(cpu_test) /\ IsSome(Unwrap(cpu_test).health)
     /\ IsSome(Unwrap(cpu_test).temperature)
     /\ Unwrap(Unwrap(cpu_test).temperature) > 95)
    => Unwrap(Unwrap(cpu_test).health).kind = "Failed"
C15_Witness ==
    /\ CpuEvaluated
    /\ Unwrap(cpu_test).completed
    /\ Unwrap(cpu_test).temperature = Some(96)
    /\ Unwrap(cpu_test).variance = 0
    /\ Unwrap(cpu_test).freq_drop_pct = 0
    /\ Unwrap(Unwrap(cpu_test).health).kind = "Failed"

\* C16: a completed run with temperature in (85, 95] C and variance in
\* [0, 200] is IssuesDetected, whatever the frequency drop is.
C16_HotRunHasIssues ==
    (/\ IsSome(cpu_test) /\ IsSome(Unwrap(cpu_test).health)
     /\ Unwrap(cpu_test).completed
     /\ IsSome(Unwrap(cpu_test).temperature)
     /\ Unwrap(Unwrap(cpu_test).temperature) > 85
     /\ Unwrap(Unwrap(cpu_test).temperature) <= 95
     /\ Unwrap(cpu_test).variance \in 0..200000)
    => Unwrap(Unwrap(cpu_test).health).kind = "IssuesDetected"
C16_Witness ==
    /\ CpuEvaluated
    /\ Unwrap(cpu_test).completed
    /\ Unwrap(cpu_test).temperature = Some(95)
    /\ Unwrap(cpu_test).variance = 200000
    /\ Unwrap(cpu_test).freq_drop_pct > 10000
    /\ Unwrap(Unwrap(cpu_test).health).kind = "IssuesDetected"

----------------------------------------------------------------------------
(* Properties of the health evaluators *)

Evaluated(f) ==
    /\ IsSome(eval)
    /\ Unwrap(eval).fn = f
    /\ IsSome(Unwrap(eval).health)

Verdict == Unwrap(Unwrap(eval).health)

\* C17: evaluate_disk_health returns Failed whenever bad_sectors > 0,
\* whatever the write speed, the read speed, the seek time and the media
\* type are.
C17_BadSectorsFail ==
    (Evaluated("disk") /\ Unwrap(eval).args.bad_sectors > 0)
    => Verdict.kind = "Failed"
C17_Witness ==
    /\ Evaluated("disk")
    /\ Unwrap(eval).args = [write |-> 500, read |-> 2000, seek |-> 5,
                            bad_sectors |-> 1, is_ssd |-> TRUE]
    /\ Verdict.kind = "Failed"

\* C18: with no temperature, evaluate_gpu_health returns Healthy when
\* is_apple_silicon is true and IssuesDetected when it is false.
C18_NoSensorVerdict ==
    (Evaluated("gpu") /\ Unwrap(eval).args.max_temp = None)
    => Verdict.kind = IF Unwrap(eval).args.is_apple_silicon
                      THEN "Healthy" ELSE "IssuesDetected"
C18_Witness ==
    /\ Evaluated("gpu")
    /\ Unwrap(eval).args = [max_temp |-> None, is_apple_silicon |-> TRUE]
    /\ Verdict = [kind |-> "Healthy"]

C20_IssuesNonEmpty ==
    (/\ IsSome(eval) /\ IsSome(Unwrap(eval).health)
     /\ Verdict.kind = "IssuesDetected")
    => Len(Verdict.issues) >= 1
C20_Witness ==
    /\ Evaluated("disk")
    /\ Verdict.kind = "IssuesDetected"
    /\ Len(Verdict.issues) = 2

----------------------------------------------------------------------------
(* Properties of the temp files *)

\* C21: no temp file outlives its unit.  Once stop() has been called on the
\* disk lane its temp file does not exist, whatever the lane had done before
\* and however often stop() is called; and when the standalone disk check
\* has returned, on any of its three return paths, its test file is gone.
C21_NoTempFileLeft ==
    /\ (lane = "disk" /\ stops > 0) => ~fs.exists
    /\ (pc = "done" /\ IsSome(disk_test)) => Unwrap(disk_test).file = None
C21_Witness ==
    /\ lane = "disk" /\ stops = 2 /\ last_call = "stop"
    /\ Unwrap(disk).errors > 0
    /\ Unwrap(disk).bytes_read = 0
    /\ Len(fs.data) > 0
    /\ ~fs.exists

----------------------------------------------------------------------------
(* Properties of the standalone disk check's verdict *)

\* C22: the verdict depends on the SMART data only through its status: with
\* status Verified or Unknown it is the verdict of the measurements alone,
\* and with status Failing it is not Healthy.
C22_SmartFailingNotHealthy ==
    (/\ pc = "done" /\ IsSome(disk_test)
     /\ IsSome(Unwrap(disk_test).smart))
    => LET t == Unwrap(disk_test)
           r == Unwrap(t.result)
       IN  IF Unwrap(r.smart).status = "Failing"
           THEN r.health.kind # "Healthy"
           ELSE r.health = evaluate_disk_health(r.write_speed_mb_s,
                                                r.read_speed_mb_s,
                                                r.seek_time_ms,
                                                r.bad_sectors, r.is_ssd)

----------------------------------------------------------------------------
(* Properties of the lanes' round trips *)

\* C23: a disk lane whose file was created, whose writes and reads all
\* succeeded and whose read-back always matched (no error counted) reports
\* healthy = true from get_result after stop(), however many run_chunk
\* calls came before.
C23_CleanLaneIsHealthy ==
    (/\ lane = "disk" /\ last_call = "get_result" /\ stops > 0
     /\ IsSome(Unwrap(disk).file)
     /\ Unwrap(disk).errors = 0)
    => Unwrap(results["disk"]).healthy

\* C24: in a RAM lane whose buffer nothing corrupts from outside, the error
\* counter is 0 after any sequence of run_chunk calls: the chunks cover the
\* whole buffer, and whenever the lane is in Verify every word holds the
\* pattern written in the Write pass just before.
C24_NoCorruptionNoErrors ==
    (lane = "ram" /\ faults = 0)
    => LET r == Unwrap(ram)
       IN  /\ r.errors = 0
           /\ IsSome(r.buffer) =>
                 /\ r.total_chunks * ChunkWords >= Len(Unwrap(r.buffer))
                 /\ r.phase = "Verify" =>
                       \A i \in 1..Len(Unwrap(r.buffer)) :
                          Unwrap(r.buffer)[i] = Pattern
C24_Witness ==
    /\ lane = "ram" /\ faults = 0 /\ last_call = "run_chunk"
    /\ Unwrap(ram).phase = "Verify"
    /\ Unwrap(ram).total_chunks = 3
    /\ Unwrap(ram).chunk_index = 2
    /\ Unwrap(ram).errors = 0

----------------------------------------------------------------------------
(* Properties of the CPU lane *)

\* C25: when stop() of the CPU lane has returned, the running flag is
\* cleared, every worker has ended (one that ended normally saw the cleared
\* flag) and has been joined once, thread_handles is empty, the operations
\* counter no longer changes, and every get_result after it reports that
\* same count.
C25_StopJoinsEveryWorker ==
    /\ [](lane = "cpu" =>
            /\ \A t \in Workers :
                  threads[t] = "done" => ~Unwrap(cpu).running
            /\ Unwrap(cpu).completed =>
                  /\ ~Unwrap(cpu).running
                  /\ Unwrap(cpu).thread_handles = <<>>
                  /\ \A t \in Workers :
                        threads[t] \in {"done", "panic"} /\ joins[t] = 1
                  /\ last_call = "get_result" =>
                        Unwrap(results["cpu"]).operations =
                           Unwrap(cpu).operations)
    /\ [][(lane = "cpu" /\ Unwrap(cpu).completed)
             => /\ Unwrap(cpu').completed
                /\ Unwrap(cpu').operations = Unwrap(cpu).operations]_vars
C25_Witness ==
    /\ lane = "cpu" /\ Unwrap(cpu).completed
    /\ stops = 1 /\ calls >= 3 /\ last_call = "get_result"
    /\ Unwrap(cpu).operations = MaxOps
    /\ Unwrap(results["cpu"]).operations = MaxOps
    /\ \A t \in Workers : threads[t] = "done"

----------------------------------------------------------------------------
(* Properties of the temperature a verdict is computed from *)

\* C26: the CPU verdict is computed from the highest temperature sampled
\* during the run: a standalone CPU run in which a sample taken while the
\* load runs is above 95 C is Failed, even when the reading taken after the
\* load is at most 85 C.
C26_SpikeFails ==
    (/\ CpuEvaluated
     /\ IsSome(Unwrap(cpu_test).max_sample)
     /\ Unwrap(Unwrap(cpu_test).max_sample) > 95)
    => Unwrap(Unwrap(cpu_test).health).kind = "Failed"

\* the highest of a non-empty set of readings
Highest(S) == CHOOSE m \in S : \A x \in S : m >= x

\* the readings a sequence holds
Readings(samples) == {samples[i] : i \in 1..Len(samples)}

\* C27: the GPU verdict is computed from the highest reading.  In the
\* standalone check temperature_max is at least the start reading, every
\* reading of the thermal loop and the end reading, it is one of them, and
\* the verdict is evaluate_gpu_health of it.  In the GPU lane max_temp never
\* decreases, is the highest of temp_samples, and is what get_result
\* classifies once a sample was taken.
C27_GpuVerdictFromMax ==
    /\ [](IsSome(gpu_test) =>
            LET t == Unwrap(gpu_test)
            IN  /\ IsSome(t.temperature_max) <=> t.sampled # {}
                /\ IsSome(t.temperature_start)
                      => Unwrap(t.temperature_start) \in t.sampled
                /\ IsSome(t.temperature_end)
                      => Unwrap(t.temperature_end) \in t.sampled
                /\ t.sampled # {}
                      => Unwrap(t.temperature_max) = Highest(t.sampled)
                /\ pc = "done" =>
                      t.health = Some(evaluate_gpu_health(
                          IF t.sampled = {} THEN None
                          ELSE Some(Highest(t.sampled)),
                          t.is_apple_silicon)))
    /\ []((lane = "gpu" /\ IsSome(gpu)) =>
            LET g == Unwrap(gpu)
            IN  /\ IsSome(g.max_temp) <=> g.temp_samples # <<>>
                /\ g.temp_samples # <<>> =>
                      LET m == Highest(Readings(g.temp_samples))
                      IN  /\ Unwrap(g.max_temp) = m
                          /\ last_call = "get_result" =>
                                LET r == Unwrap(results["gpu"])
                                IN  /\ r.temp_c = Some(m)
                                    /\ r.healthy <=> ~(m > GpuHotC)
                                    /\ r.status = "Overheating"
                                          <=> m > GpuOverheatC)
    /\ [][(lane = "gpu" /\ IsSome(gpu) /\ IsSome(Unwrap(gpu).max_temp))
            => /\ IsSome(gpu') /\ IsSome(Unwrap(gpu').max_temp)
               /\ Unwrap(Unwrap(gpu').max_temp)
                     >= Unwrap(Unwrap(gpu).max_temp)]_vars

C27_Witness ==
    /\ pc = "done"
    /\ IsSome(gpu_test)
    /\ Unwrap(gpu_test).temperature_start = Some(70)
    /\ Unwrap(gpu_test).elapsed = 1
    /\ Unwrap(gpu_test).sampled = {70, 96}
    /\ Unwrap(gpu_test).temperature_end = Some(70)
    /\ Unwrap(gpu_test).temperature_max = Some(96)
    /\ Unwrap(Unwrap(gpu_test).health).kind = "Failed"

\* C28: the GPU lane's get_result classifies a temperature t with the
\* thresholds of the CPU lane's get_result: "Overheating" iff t > 95,
\* "Running hot" iff 85 < t <= 95, healthy iff t <= 85.
C28_GpuLaneUsesCpuThresholds ==
    (/\ lane = "gpu"
     /\ last_call = "get_result"
     /\ IsSome(Unwrap(results["gpu"]).temp_c))
    => LET r == Unwrap(results["gpu"])
           t == Unwrap(r.temp_c)
       IN  /\ r.status = "Overheating" <=> t > CpuOverheatC
           /\ r.status = "Running hot" <=> (t > CpuHotC /\ t <= CpuOverheatC)
           /\ r.healthy <=> t <= CpuHotC

\* the GPU of the machine, which GpuTortureTest::new(duration_secs) is not
\* told
GpuTypes == {"Discrete", "Integrated"}

\* C29: a GPU lane for which no temperature was ever available reports
\* healthy = false when the GPU is discrete and healthy = true when it is
\* integrated.
C29_NoSampleByGpuType ==
    \A gpu_type \in GpuTypes :
        (/\ lane = "gpu"
         /\ last_call = "get_result"
         /\ ~IsSome(Unwrap(results["gpu"]).temp_c))
        => (Unwrap(results["gpu"]).healthy <=> gpu_type = "Integrated")

----------------------------------------------------------------------------
(* Properties of the soft thresholds *)

\* 1 for a threshold that is crossed, 0 otherwise
Triggered(crossed) == IF crossed THEN 1 ELSE 0

\* the soft issues among the arguments of an evaluate_cpu_health call
CpuSoftIssues(a) ==
    Triggered(IsSome(a.temperature) /\ Unwrap(a.temperature) > 85)
    + Triggered(a.freq_drop_pct > 10000)

\* the soft issues among the arguments of an evaluate_disk_health call
DiskSoftIssues(a) ==
    Triggered(a.seek > (IF a.is_ssd THEN 5 ELSE 20))
    + Triggered(a.read < (IF a.is_ssd THEN 100 ELSE 50))

\* C30: soft thresholds never escalate to Failed.  A completed CPU run with
\* a temperature of at most 95 C and a variance of at most 200%, and a disk
\* run without bad sectors whose speeds are at or above the critical floors,
\* is never Failed: with soft issues (CPU hot, frequency drop over 10%, slow
\* seek, below-average read) it is IssuesDetected with one entry per issue,
\* and without any it is Healthy.
C30_SoftIssuesNeverFail ==
    /\ (/\ Evaluated("cpu")
        /\ Unwrap(eval).args.completed
        /\ Unwrap(eval).args.variance <= 200000
        /\ IsSome(Unwrap(eval).args.temperature)
              => Unwrap(Unwrap(eval).args.temperature) <= 95)
       => LET n == CpuSoftIssues(Unwrap(eval).args)
          IN  IF n > 0
              THEN Verdict.kind = "IssuesDetected" /\ Len(Verdict.issues) = n
              ELSE Verdict.kind = "Healthy"
    /\ (/\ Evaluated("disk")
        /\ Unwrap(eval).args.bad_sectors = 0
        /\ Unwrap(eval).args.read
              >= (IF Unwrap(eval).args.is_ssd THEN 50 ELSE 10)
        /\ Unwrap(eval).args.write
              >= (IF Unwrap(eval).args.is_ssd THEN 30 ELSE 10))
       => LET n == DiskSoftIssues(Unwrap(eval).args)
          IN  IF n > 0
              THEN Verdict.kind = "IssuesDetected" /\ Len(Verdict.issues) = n
              ELSE Verdict.kind = "Healthy"

C30_Witness ==
    /\ Evaluated("cpu")
    /\ Unwrap(eval).args.completed
    /\ Unwrap(eval).args.variance = 200000
    /\ Unwrap(eval).args.temperature = Some(95)
    /\ Unwrap(eval).args.freq_drop_pct > 10000
    /\ Verdict.kind = "IssuesDetected"
    /\ Len(Verdict.issues) = 2

\* C31: evaluate_disk_health with bad_sectors = 0 applies the floors of the
\* media type.  It returns Failed iff read < 50 or write < 30 on an SSD, or
\* read < 10 or write < 10 on an HDD; otherwise IssuesDetected iff the read
\* speed is under 100 (SSD) or 50 (HDD), or a seek test that was run
\* (seek > 0) took over 5 ms (SSD) or 20 ms (HDD); otherwise Healthy.  A
\* skipped seek test (seek = 0) adds no entry.
C31_DiskFloorsByMedia ==
    (Evaluated("disk") /\ Unwrap(eval).args.bad_sectors = 0)
    => LET a == Unwrap(eval).args
           critical == IF a.is_ssd THEN a.read < 50 \/ a.write < 30
                       ELSE a.read < 10 \/ a.write < 10
           below_average == IF a.is_ssd THEN a.read < 100 ELSE a.read < 50
           slow_seek == a.seek > 0
                           /\ (IF a.is_ssd THEN a.seek > 5 ELSE a.seek > 20)
       IN  /\ Verdict.kind = "Failed" <=> critical
           /\ Verdict.kind = "IssuesDetected"
                 <=> (~critical /\ (below_average \/ slow_seek))
           /\ Verdict.kind = "Healthy"
                 <=> (~critical /\ ~below_average /\ ~slow_seek)
           /\ (a.seek = 0 /\ Verdict.kind = "IssuesDetected")
                 => (below_average /\ Len(Verdict.issues) = 1)

C31_Witness ==
    /\ Evaluated("disk")
    /\ Unwrap(eval).args = [write |-> 29, read |-> 50, seek |-> 0,
                            bad_sectors |-> 0, is_ssd |-> FALSE]
    /\ Verdict.kind = "Healthy"

----------------------------------------------------------------------------
(* Properties of the lanes' life cycle *)

\* C32: within one run the error counters of the RAM lane and of the disk
\* lane never decrease: no run_chunk, get_metrics, stop or get_result call
\* lowers or resets them, also not when a new Write/Verify or Write/Read
\* pass begins.
C32_ErrorsNeverDecrease ==
    [][/\ IsSome(ram) => IsSome(ram')
                         /\ Unwrap(ram').errors >= Unwrap(ram).errors
       /\ IsSome(disk) => IsSome(disk')
                          /\ Unwrap(disk').errors >= Unwrap(disk).errors]_vars

C32_Witness ==
    /\ lane = "ram"
    /\ last_call = "get_metrics"
    /\ stops = 0
    /\ Unwrap(ram).errors = 1
    /\ Unwrap(ram).phase = "Verify"

----------------------------------------------------------------------------
(* Properties of the dashboard *)

\* C33: the dashboard is rendered exactly on the cycles whose ordinal is a
\* multiple of 10, never on another cycle; the first render prints its 5
\* lines without moving the cursor and every later render first moves the
\* cursor up exactly 5 lines, so that every render prints on the same 5
\* lines of the terminal.
C33_RenderEveryTenthCycle ==
    LET r == terminal.rendered
    IN  /\ Len(r) = cycle_counter \div 10
        /\ \A i \in 1..Len(r) :
              /\ r[i].cycle = 10 * i
              /\ r[i].moved_up = (IF i = 1 THEN 0 ELSE 5)
              /\ r[i].top = r[1].top
        /\ r # <<>> => terminal.cursor = r[1].top + 5

C33_Witness ==
    /\ cycle_counter = 20
    /\ Len(terminal.rendered) = 2
    /\ terminal.rendered[2].moved_up = 5
    /\ ~first_render

----------------------------------------------------------------------------
(* Properties of the standalone GPU check *)

\* C34: when the compute backend is absent or returns an error the
\* standalone GPU check runs the thermal loop for exactly duration_secs
\* iterations and returns a result; when the compute backend succeeds the
\* thermal loop does not run at all.
C34_ThermalFallback ==
    IsSome(gpu_test) =>
        LET t == Unwrap(gpu_test)
        IN  /\ t.elapsed <= t.duration_secs
            /\ t.compute_result # "Err" => t.elapsed = 0
            /\ pc = "gpu_thermal" => t.compute_result = "Err"
            /\ (pc \in {"gpu_end", "gpu_evaluate", "done"}
                /\ t.compute_result = "Err")
                  => t.elapsed = t.duration_secs
            /\ pc = "done" => IsSome(t.health)
            /\ pc \in {"gpu_start", "gpu_compute", "gpu_thermal", "gpu_end",
                       "gpu_evaluate", "done"}
            /\ pc # "done" => ENABLED NextGpuTemps

C34_Witness ==
    /\ pc = "done"
    /\ IsSome(gpu_test)
    /\ Unwrap(gpu_test).compute_result = "Err"
    /\ Unwrap(gpu_test).duration_secs = 1
    /\ Unwrap(gpu_test).elapsed = 1
    /\ IsSome(Unwrap(gpu_test).health)

----------------------------------------------------------------------------
(* Properties of the CPU usage monitor *)

\* C35: get_per_core_usage always returns a per-core map written by a whole
\* number of completed updates, never a partly written one; the monitor
\* thread never waits for the lock and holds it only while it stores an
\* update, not across its sleep or its refresh; and a get_per_core_usage
\* call that waits for the lock gets it.
C35_MonitorSnapshots ==
    /\ [](IsSome(monitor) =>
            LET m == Unwrap(monitor)
            IN  /\ IsSome(m.returned) =>
                      \A c, d \in Workers :
                          Unwrap(m.returned)[c] = Unwrap(m.returned)[d]
                /\ m.lock = "monitor" <=> m.thread \in {"insert", "total"}
                /\ m.lock = "main" <=> m.reader = "clone"
                /\ m.thread \in {"loop", "try_lock", "insert", "total"})
    /\ ((IsSome(monitor) /\ Unwrap(monitor).reader = "lock")
          ~> (IsSome(monitor) /\ Unwrap(monitor).reader = "clone"))

C35_Witness ==
    /\ IsSome(monitor)
    /\ Unwrap(monitor).reads = 2
    /\ Unwrap(monitor).sys = 2
    /\ Unwrap(monitor).returned = Some([c \in Workers |-> 1])
    /\ Unwrap(monitor).lock = "monitor"
    /\ Unwrap(monitor).next_core = 2

----------------------------------------------------------------------------
(* Properties of the lanes after stop() *)

\* C36: after RamTortureTest::stop has returned the lane is in phase Done
\* and no longer holds its test buffer.
C36_StopReleasesBuffer ==
    (lane = "ram" /\ stops > 0)
    => /\ Unwrap(ram).phase = "Done"
       /\ ~IsSome(Unwrap(ram).buffer)

----------------------------------------------------------------------------
(* Properties of the run as a whole *)

\* C37: every torture run that leaves the prompt for the run reaches its
\* summary.  The loop sleeps the remainder of the 100 ms cycle, or longer,
\* when the cycle finished under budget and does not sleep otherwise; it
\* exits once the elapsed time has reached the duration; and the four stop()
\* calls and the four get_result() calls then complete.
C37_RunReachesSummary ==
    /\ [][(pc = "sleep" /\ pc' = "loop") =>
            IF now - cycle_start < 100
            THEN now' >= cycle_start + 100
            ELSE now' = now]_vars
    /\ [](pc \in EndPcs => now >= config.duration_secs * 1000)
    /\ [](pc = "done" /\ result # Some(CancelledResult)
            => /\ stopped = Lanes
               /\ \A l \in Lanes : IsSome(results[l]))
    /\ (pc = "create") ~> (pc = "done")

C37_Witness ==
    /\ pc = "done"
    /\ config.duration_secs = 1
    /\ cycle_counter = 9
    /\ elapsed >= 100
    /\ stopped = Lanes
    /\ \A l \in Lanes : IsSome(results[l])

\* C38: Done is absorbing for the RAM lane and the disk lane.  Once the lane
\* is in phase Done, after stop(), after a failed file creation or after a
\* refused allocation, the phase stays Done, and a run_chunk call leaves
\* every field of the lane and the temp file as they were.
C38_DoneIsAbsorbing ==
    /\ [][(IsSome(ram) /\ Unwrap(ram).phase = "Done")
            => /\ Unwrap(ram').phase = "Done"
               /\ (calls' = calls + 1 /\ last_call' = "run_chunk")
                     => ram' = ram]_vars
    /\ [][(IsSome(disk) /\ Unwrap(disk).phase = "Done")
            => /\ Unwrap(disk').phase = "Done"
               /\ (calls' = calls + 1 /\ last_call' = "run_chunk")
                     => (disk' = disk /\ fs' = fs)]_vars

C38_Witness ==
    /\ lane = "ram"
    /\ stops = 1
    /\ calls = 4
    /\ last_call = "run_chunk"
    /\ IsSome(Unwrap(ram).buffer)
    /\ Unwrap(ram).phase = "Done"
    /\ Unwrap(ram).chunk_index < Unwrap(ram).total_chunks

----------------------------------------------------------------------------
(* Properties of the standalone CPU check's counters *)

\* C39: in a standalone CPU run without a panicked worker the operations
\* of the result, the sum of the counters the workers return at join, equal
\* the final value of the shared total_ops counter, however the increments
\* interleave; and the running flag is cleared before the first join.
C39_JoinedOpsEqualTotal ==
    IsSome(cpu_test) =>
        LET t == Unwrap(cpu_test)
        IN  /\ (pc \in {"cpu_join", "cpu_metrics", "cpu_evaluate", "done"}
                \/ t.joined > 0) => ~t.running
            /\ (/\ pc \in {"cpu_metrics", "cpu_evaluate", "done"}
                /\ \A w \in Workers : t.workers[w].pc # "panic")
                  => /\ t.joined = NumCores
                     /\ \A w \in Workers : t.workers[w].pc = "returned"
                     /\ t.all_ops = t.total_ops

C39_Witness ==
    /\ pc = "done"
    /\ IsSome(cpu_test)
    /\ Unwrap(cpu_test).completed
    /\ \A w \in Workers : Unwrap(cpu_test).workers[w].ops = MaxOps
    /\ Unwrap(cpu_test).all_ops = NumCores * MaxOps
    /\ Unwrap(cpu_test).total_ops = NumCores * MaxOps

====
